---------------------------- MODULE Spec2Model ----------------------------
(***************************************************************************)
(* Model of the GOES-16 heat-flux package: the nearest-station search of   *)
(* vdtn/obs/ameriflux/reader.py and asos_data_reader.py, and the latent    *)
(* heat flux computation of phys/qe.py.                                    *)
(*                                                                         *)
(* Numbers.  The program computes in IEEE-754 binary64 (Python float,      *)
(* numpy.float64).  The model computes in a decimal floating point of four *)
(* significant digits: a finite value is m * 10^e with m = 0 or            *)
(* 1000 <= |m| <= 9999, and there are the special values NaN, +inf and     *)
(* -inf with the IEEE rules (x/0 = +-inf, 0/0 = NaN, inf - inf = NaN, NaN  *)
(* is contagious and compares false with everything).  numpy raises no     *)
(* exception on these: it warns and carries the special value on.  The     *)
(* exponent is unbounded, so overflow and underflow of finite values are   *)
(* not modelled; a signed zero is not modelled either.                     *)
(***************************************************************************)
EXTENDS Integers, Sequences, FiniteSets, TLC

---------------------------------------------------------------------------
(* Floating point values and arithmetic                                    *)

Abs(n) == IF n < 0 THEN -n ELSE n

Sgn(n) == IF n < 0 THEN -1 ELSE IF n > 0 THEN 1 ELSE 0

NaN == [k |-> "nan", m |-> 0, e |-> 0]

Inf(s) == [k |-> "inf", m |-> s, e |-> 0]

Zero == [k |-> "fin", m |-> 0, e |-> 0]

\* Rounding of m * 10^e to four significant digits (half away from zero).
RECURSIVE Norm(_, _)
Norm(m, e) ==
    IF m = 0 THEN Zero
    ELSE IF Abs(m) >= 10000
         THEN Norm(Sgn(m) * ((Abs(m) + 5) \div 10), e + 1)
    ELSE IF Abs(m) < 1000 THEN Norm(m * 10, e - 1)
    ELSE [k |-> "fin", m |-> m, e |-> e]

\* A decimal literal of the source: F(27315, -2) is 273.15.
F(m, e) == Norm(m, e)

IsNaN(x) == x.k = "nan"

IsFinite(x) == x.k = "fin"

FNeg(x) == IF x.k = "nan" THEN NaN ELSE [x EXCEPT !.m = -x.m]

\* x + y
FAdd(x, y) ==
    IF x.k = "nan" \/ y.k = "nan" THEN NaN
    ELSE IF x.k = "inf"
         THEN (IF y.k = "inf" /\ y.m # x.m THEN NaN ELSE x)
    ELSE IF y.k = "inf" THEN y
    ELSE IF x.m = 0 THEN y
    ELSE IF y.m = 0 THEN x
    ELSE IF x.e >= y.e
         THEN (IF x.e - y.e > 5 THEN x
               ELSE Norm(x.m * (10 ^ (x.e - y.e)) + y.m, y.e))
    ELSE (IF y.e - x.e > 5 THEN y
          ELSE Norm(y.m * (10 ^ (y.e - x.e)) + x.m, x.e))

\* x - y
FSub(x, y) == FAdd(x, FNeg(y))

\* x * y
FMul(x, y) ==
    IF x.k = "nan" \/ y.k = "nan" THEN NaN
    ELSE IF x.k = "inf" \/ y.k = "inf"
         THEN (IF x.m = 0 \/ y.m = 0 THEN NaN ELSE Inf(Sgn(x.m) * Sgn(y.m)))
    ELSE Norm(x.m * y.m, x.e + y.e)

\* x / y with numpy's rules for a zero divisor: no exception, +-inf or NaN.
FDiv(x, y) ==
    IF x.k = "nan" \/ y.k = "nan" THEN NaN
    ELSE IF x.k = "inf"
         THEN (IF y.k = "inf" THEN NaN
               ELSE Inf(x.m * (IF y.m < 0 THEN -1 ELSE 1)))
    ELSE IF y.k = "inf" THEN Zero
    ELSE IF y.m = 0
         THEN (IF x.m = 0 THEN NaN ELSE Inf(Sgn(x.m)))
    ELSE Norm(Sgn(x.m) * Sgn(y.m) * ((Abs(x.m) * 100000) \div Abs(y.m)),
              x.e - y.e - 5)

\* x < y; false when either side is NaN.
FLt(x, y) ==
    LET d == FSub(x, y)
    IN  d.k # "nan" /\ d.m < 0

\* x == y as floats; false when either side is NaN.
FEq(x, y) == x.k # "nan" /\ y.k # "nan" /\ x = y

FLe(x, y) == FLt(x, y) \/ FEq(x, y)

One == F(1, 0)

Two == F(2, 0)

Half == F(5, -1)

\* numpy.pi
Pi == F(3142, -3)

\* Sum of the exponential series 1 + x/n * (1 + x/(n+1) * (...)), terms n..7.
RECURSIVE ExpTerms(_, _)
ExpTerms(x, n) ==
    IF n > 7 THEN One
    ELSE FAdd(One, FMul(FDiv(x, F(n, 0)), ExpTerms(x, n + 1)))

\* numpy.exp: argument halving down to [0, 1/2], then the series.
RECURSIVE FExp(_)
FExp(x) ==
    IF x.k = "nan" THEN NaN
    ELSE IF x.k = "inf" THEN (IF x.m > 0 THEN x ELSE Zero)
    ELSE IF x.m < 0 THEN FDiv(One, FExp(FNeg(x)))
    ELSE IF FLt(Half, x)
         THEN LET h == FExp(FDiv(x, Two)) IN FMul(h, h)
    ELSE ExpTerms(x, 1)

\* numpy.tanh: (e^2x - 1)/(e^2x + 1), which is +-1 to working precision
\* beyond |x| = 10.
FTanh(x) ==
    IF x.k = "nan" THEN NaN
    ELSE IF x.k = "inf" THEN F(x.m, 0)
    ELSE IF FLt(F(10, 0), x) THEN One
    ELSE IF FLt(x, F(-10, 0)) THEN F(-1, 0)
    ELSE LET t == FExp(FMul(Two, x))
         IN  FDiv(FSub(t, One), FAdd(t, One))

\* Sum z/n + z^3/(n+2) + ... of the series of atanh, terms n..15.
RECURSIVE LnTerms(_, _, _)
LnTerms(zp, z2, n) ==
    IF n > 15 THEN Zero
    ELSE FAdd(FDiv(zp, F(n, 0)), LnTerms(FMul(zp, z2), z2, n + 2))

\* Natural logarithm: ln(y * 10^E) = 2 atanh((y-1)/(y+1)) + E ln 10 with
\* y in [0.3162, 3.162).
FLn(x) ==
    IF x.k = "nan" THEN NaN
    ELSE IF x.k = "inf" THEN (IF x.m > 0 THEN x ELSE NaN)
    ELSE IF x.m < 0 THEN NaN
    ELSE IF x.m = 0 THEN Inf(-1)
    ELSE LET big == x.m >= 3162
             y   == [k |-> "fin", m |-> x.m, e |-> IF big THEN -4 ELSE -3]
             E   == IF big THEN x.e + 4 ELSE x.e + 3
             z   == FDiv(FSub(y, One), FAdd(y, One))
         IN  FAdd(FMul(Two, LnTerms(z, FMul(z, z), 1)),
                  FMul(F(E, 0), F(2303, -3)))

\* x ** y for a float exponent (C pow): 1 ** y is 1, a NaN base gives NaN,
\* a negative base with a fractional exponent gives NaN.
FPow(x, y) ==
    IF FEq(x, One) THEN One
    ELSE IF y.k = "fin" /\ y.m = 0 THEN One
    ELSE IF x.k = "nan" \/ y.k = "nan" THEN NaN
    ELSE IF x.k = "fin" /\ x.m = 0
         THEN (IF y.m > 0 THEN Zero ELSE Inf(1))
    ELSE IF x.m < 0 THEN NaN
    ELSE FExp(FMul(y, FLn(x)))

\* Largest r in lo..hi with r*r <= n (lo*lo <= n).
RECURSIVE ISqrt(_, _, _)
ISqrt(n, lo, hi) ==
    IF lo >= hi THEN lo
    ELSE LET mid == (lo + hi + 1) \div 2
         IN  IF mid * mid <= n THEN ISqrt(n, mid, hi)
             ELSE ISqrt(n, lo, mid - 1)

\* numpy.sqrt: NaN for a negative argument.
FSqrt(x) ==
    IF x.k = "nan" THEN NaN
    ELSE IF x.k = "inf" THEN (IF x.m > 0 THEN x ELSE NaN)
    ELSE IF x.m < 0 THEN NaN
    ELSE IF x.m = 0 THEN Zero
    ELSE IF x.e % 2 = 0
         THEN Norm(ISqrt(x.m * 10000, 0, 10000), (x.e - 4) \div 2)
    ELSE Norm(ISqrt(x.m * 100000, 0, 31623), (x.e - 5) \div 2)

\* Sum of the cosine series 1 - x^2/2 + x^4/24 - ..., as
\* 1 - x2/(n(n+1)) * (1 - x2/((n+2)(n+3)) * ...), n = 1, 3, 5, 7.
RECURSIVE CosTerms(_, _)
CosTerms(x2, n) ==
    IF n > 7 THEN One
    ELSE FSub(One, FMul(FDiv(x2, F(n * (n + 1), 0)), CosTerms(x2, n + 2)))

\* cos on [0, pi/2]: argument halving down to [0, 1/2], then the series.
RECURSIVE CosQ(_)
CosQ(x) ==
    IF FLt(Half, x)
    THEN LET h == CosQ(FDiv(x, Two)) IN FSub(FMul(Two, FMul(h, h)), One)
    ELSE CosTerms(FMul(x, x), 1)

\* numpy.cos: even, period 2 pi, cos(pi - x) = -cos(x).
RECURSIVE FCos(_)
FCos(x) ==
    IF x.k # "fin" THEN NaN
    ELSE IF x.m < 0 THEN FCos(FNeg(x))
    ELSE IF FLt(FMul(Two, Pi), x) THEN FCos(FSub(x, FMul(Two, Pi)))
    ELSE IF FLt(Pi, x) THEN FCos(FSub(FMul(Two, Pi), x))
    ELSE IF FLt(FDiv(Pi, Two), x) THEN FNeg(CosQ(FSub(Pi, x)))
    ELSE CosQ(x)

\* Sum of the arcsine series from the term t of index n on, terms n..8:
\* the next term is t * s^2 * (2n-1)^2 / (2n (2n+1)).
RECURSIVE ASinTerms(_, _, _)
ASinTerms(t, s2, n) ==
    IF n > 8 THEN Zero
    ELSE FAdd(t, ASinTerms(FDiv(FMul(FMul(t, s2), F((2*n - 1) * (2*n - 1), 0)),
                                F(2 * n * (2*n + 1), 0)),
                           s2, n + 1))

\* numpy.arcsin: NaN outside [-1, 1]; odd; above 1/2 by
\* arcsin(s) = pi/2 - 2 arcsin(sqrt((1 - s)/2)).
RECURSIVE FArcSin(_)
FArcSin(s) ==
    IF s.k # "fin" THEN NaN
    ELSE IF s.m < 0 THEN FNeg(FArcSin(FNeg(s)))
    ELSE IF FLt(One, s) THEN NaN
    ELSE IF FLt(Half, s)
         THEN FSub(FDiv(Pi, Two),
                   FMul(Two, FArcSin(FSqrt(FDiv(FSub(One, s), Two)))))
    ELSE ASinTerms(s, FMul(s, s), 1)

---------------------------------------------------------------------------
(* Great-circle distance: reader.py and asos_data_reader.py                *)

\* GRS80 semi-major axis of Earth (m)
R_earth == F(6378137, 0)

\* distance with the sum of the latitudes where the code has their
\* difference.
distance_lat_sum(lat_crd, lon_crd, lat_stat, lon_stat) ==
    LET p == FDiv(Pi, F(180, 0))
        a == FAdd(FSub(Half,
                       FDiv(FCos(FMul(FAdd(lat_stat, lat_crd), p)), Two)),
                  FDiv(FMul(FMul(FCos(FMul(lat_crd, p)),
                                 FCos(FMul(lat_stat, p))),
                            FSub(One, FCos(FMul(FSub(lon_stat, lon_crd), p)))),
                       Two))
    IN  FMul(FMul(Two, R_earth), FArcSin(FSqrt(a)))

\* distance along the meridian alone: the longitude term is left out.
distance_meridian(lat_crd, lon_crd, lat_stat, lon_stat) ==
    LET p == FDiv(Pi, F(180, 0))
        a == FSub(Half, FDiv(FCos(FMul(FSub(lat_stat, lat_crd), p)), Two))
    IN  FMul(FMul(Two, R_earth), FArcSin(FSqrt(a)))

\* distance with the latitude of the query in both cosines of the
\* longitude term.
distance_crd_cos(lat_crd, lon_crd, lat_stat, lon_stat) ==
    LET p == FDiv(Pi, F(180, 0))
        a == FAdd(FSub(Half,
                       FDiv(FCos(FMul(FSub(lat_stat, lat_crd), p)), Two)),
                  FDiv(FMul(FMul(FCos(FMul(lat_crd, p)),
                                 FCos(FMul(lat_crd, p))),
                            FSub(One, FCos(FMul(FSub(lon_stat, lon_crd), p)))),
                       Two))
    IN  FMul(FMul(Two, R_earth), FArcSin(FSqrt(a)))

\* distance(lat_crd, lon_crd, lat_stat, lon_stat), the same expression in
\* both readers.
distance(lat_crd, lon_crd, lat_stat, lon_stat) ==
    LET p == FDiv(Pi, F(180, 0))
        a == FAdd(FSub(Half,
                       FDiv(FCos(FMul(FSub(lat_stat, lat_crd), p)), Two)),
                  FDiv(FMul(FMul(FCos(FMul(lat_crd, p)),
                                 FCos(FMul(lat_stat, p))),
                            FSub(One, FCos(FMul(FSub(lon_stat, lon_crd), p)))),
                       Two))
    IN  FMul(FMul(Two, R_earth), FArcSin(FSqrt(a)))

---------------------------------------------------------------------------
(* Specific humidity, air density and latent heat flux: phys/qe.py         *)

\* Psychrometric constant (hPa K^-1)
gamma == F(670, -3)

\* Gas constant (J K^-1 kg^-1)
R == F(28705, -2)

\* Specific heat capacity of air at constant pressure
c_p == F(1006, 0)

\* Gas constant for water vapor (J K^-1 kg^-1)
R_v == F(461, 0)

\* Latent heat of vaporization (J kg^-1)
L_v == F(25, 5)

\* Reference vapor pressure (hPa)
e_0 == F(6113, -3)

\* rho(T_air, p_air)
rho(T_air, p_air) == FDiv(FMul(p_air, F(100, 0)), FMul(R, T_air))

\* q with the pair returned in the other order, <<q_s, q_a>>.
q_swapped(T_air, T_dew, p_air) ==
    LET Ta  == FSub(T_air, F(27315, -2))
        Td  == FSub(T_dew, F(27315, -2))
        e   == FMul(e_0, FExp(FDiv(FMul(F(1767, -2), Td),
                                   FAdd(Td, F(2435, -1)))))
        e_s == FMul(e_0, FExp(FDiv(FMul(F(1767, -2), Ta),
                                   FAdd(Ta, F(2435, -1)))))
        q_a == FDiv(FMul(F(622, -3), e), FSub(p_air, FMul(F(378, -3), e)))
        q_s == FDiv(FMul(F(622, -3), e_s), FSub(p_air, FMul(F(378, -3), e_s)))
    IN  <<q_s, q_a>>

\* q with the dewpoint left in Kelvin.
q_dew_kelvin(T_air, T_dew, p_air) ==
    LET Ta  == FSub(T_air, F(27315, -2))
        Td  == T_dew
        e   == FMul(e_0, FExp(FDiv(FMul(F(1767, -2), Td),
                                   FAdd(Td, F(2435, -1)))))
        e_s == FMul(e_0, FExp(FDiv(FMul(F(1767, -2), Ta),
                                   FAdd(Ta, F(2435, -1)))))
        q_a == FDiv(FMul(F(622, -3), e), FSub(p_air, FMul(F(378, -3), e)))
        q_s == FDiv(FMul(F(622, -3), e_s), FSub(p_air, FMul(F(378, -3), e_s)))
    IN  <<q_a, q_s>>

\* q(T_air, T_dew, p_air): the pair <<q_a, q_s>>.
q(T_air, T_dew, p_air) ==
    LET Ta  == FSub(T_air, F(27315, -2))
        Td  == FSub(T_dew, F(27315, -2))
        e   == FMul(e_0, FExp(FDiv(FMul(F(1767, -2), Td),
                                   FAdd(Td, F(2435, -1)))))
        e_s == FMul(e_0, FExp(FDiv(FMul(F(1767, -2), Ta),
                                   FAdd(Ta, F(2435, -1)))))
        q_a == FDiv(FMul(F(622, -3), e), FSub(p_air, FMul(F(378, -3), e)))
        q_s == FDiv(FMul(F(622, -3), e_s), FSub(p_air, FMul(F(378, -3), e_s)))
    IN  <<q_a, q_s>>

\* numpy.nanmax of a scalar: the scalar itself (NaN, with a warning, when it
\* is NaN).
nanmax(sm) == sm

\* Line 111: stomatal resistance.
r_st_of(c_sw, S_d) ==
    LET r_st_min == F(1, 2)
        r_st_max == F(1, 4)
        c_sd     == F(25, 0)
    IN  FAdd(FDiv(r_st_min, c_sw),
             FMul(FDiv(FSub(r_st_max, r_st_min), c_sw),
                  FSub(One, FTanh(FDiv(S_d, c_sd)))))

\* Line 118: soil resistance.
r_soil_of(sm_max, sm) ==
    LET a == F(35, -1)
        b == F(23, -1)
        c == F(4335, -1)
    IN  FAdd(FMul(a, FPow(FDiv(sm_max, sm), b)), c)

\* Lines 122 and 123: the flux of one path, rho * (q_sat - q_a) / (r_av + r).
path_flux(dens, q_sat, q_a, r_av, r) ==
    FDiv(FMul(dens, FSub(q_sat, q_a)), FAdd(r_av, r))

\* qe as numpy.nansum([T, E]) * L_v: a missing path counts as zero.
qe_nansum(T, E) ==
    FMul(FAdd(IF IsNaN(T) THEN Zero ELSE T, IF IsNaN(E) THEN Zero ELSE E), L_v)

\* qe clamped at zero: max((T + E) * L_v, 0).
qe_clamped(T, E) ==
    LET v == FMul(FAdd(T, E), L_v) IN IF FLt(v, Zero) THEN Zero ELSE v

\* Line 124: qe = (T + E) * L_v.
qe_of(T, E) == FMul(FAdd(T, E), L_v)

\* lhf(T_lst, T_air, T_dew, p_air, r_av, sm, S_d, LAI): the locals of the
\* call when it returns; qe is the value returned.
lhf(T_lst, T_air, T_dew, p_air, r_av, sm, S_d, LAI) ==
    LET qa_l    == q(T_air, T_dew, p_air)
        qa_g    == q(T_lst, T_dew, p_air)
        q_a     == qa_l[1]
        q_sat_l == qa_l[2]
        q_sat_g == qa_g[2]
        sm_max  == nanmax(sm)
        c_sw    == FDiv(sm, sm_max)
        r_st    == r_st_of(c_sw, S_d)
        r_c     == FDiv(r_st, LAI)
        r_soil  == r_soil_of(sm_max, sm)
        T       == path_flux(rho(T_air, p_air), q_sat_l, q_a, r_av, r_c)
        E       == path_flux(rho(T_air, p_air), q_sat_g, q_a, r_av, r_soil)
    IN  [q_a |-> q_a, q_sat_l |-> q_sat_l, q_sat_g |-> q_sat_g,
         sm_max |-> sm_max, c_sw |-> c_sw, r_st |-> r_st, r_c |-> r_c,
         r_soil |-> r_soil, T |-> T, E |-> E, qe |-> qe_of(T, E)]

---------------------------------------------------------------------------
(* State                                                                   *)

VARIABLES
    station_log,  \* the station rows of the station list file, in file order
    fn,           \* the search that is running: "site_finder", "asos_find"
    crd,          \* <<lat, lon>> of the query
    stations,     \* the rows the search iterates over
    i,            \* the loop variable of the search
    dists,        \* running minimum distance
    station,      \* the station found so far; the value returned
    pc,           \* "idle", "loop", "done"
    raised,       \* the exception the search ended with ("" for none)
    lhf_pc,       \* "idle", "done"
    lhf_args,     \* the arguments of the last lhf call
    lhf_frame,    \* the locals of the last lhf call, qe the value returned
    lhf_raised,   \* the exception lhf ended with ("" for none)
    csv_pc,       \* csv_reader: "idle", "filtered", "hours", "merged",
                  \* "done"
    csv_args,     \* the rows read from the file and the window asked for
    csv_frame,    \* the locals end_date, data, date_df of csv_reader
    smap_pc,      \* smap.main: "idle", "done"
    smap_arr,     \* the axes lat[:, 0], lon[0, :] and the data of arr
    smap_ret,     \* the triple smap.main returns
    sd_pc,        \* s_d: "idle", "query", "swap", "slice", "mask", "done"
    sd_args,      \* the axes and flags of the product and the domain
    sd_frame,     \* the locals goes_idx, lat, lon, data, dqf of s_d
    hum_pc,       \* q and rho: "idle", "done"
    hum_args,     \* the function called and its arguments
    hum_ret,      \* the value returned
    hum_raised,   \* the exception the call ended with ("" for none)
    dist_pc,      \* distance: "idle", "done"
    dist_args,    \* the arguments of the calls so far, one tuple a call
    dist_ret,     \* the values the calls returned
    lhf_kw,       \* the keyword arguments of the last lhf call
    globals,      \* the module-level names of qe.py and asos_data_reader.py
    threads,      \* the calls running side by side, one frame a thread
    cache_pc,     \* smap.main, lai.main: "idle", "loop", "after", "done"
    cache_args,   \* the function called and the request
    cache_dir,    \* the files of the folder: name, date span, content
    cache_frame,  \* the locals of the call
    dl_pc,        \* data_download, sd.main: "idle", "while", "list",
                  \* "try", "returned", "main"
    dl_args,      \* bucket or not, the date and the listing
    dl_frame,     \* the locals of data_download
    dl_ret,       \* what data_download and sd.main returned
    asos_pc,      \* data_read: "idle", "loop", "convert", "done"
    asos_args,    \* the rows of the file and the date range
    asos_frame    \* the locals of data_read

geo_vars == <<station_log, fn, crd, stations, i, dists, station, pc, raised>>

flux_vars == <<lhf_pc, lhf_args, lhf_frame, lhf_raised, lhf_kw>>

csv_vars == <<csv_pc, csv_args, csv_frame>>

smap_vars == <<smap_pc, smap_arr, smap_ret>>

sd_vars == <<sd_pc, sd_args, sd_frame>>

hum_vars == <<hum_pc, hum_args, hum_ret, hum_raised>>

dist_vars == <<dist_pc, dist_args, dist_ret>>

par_vars == <<globals, threads>>

cache_vars == <<cache_pc, cache_args, cache_dir, cache_frame>>

dl_vars == <<dl_pc, dl_args, dl_frame, dl_ret>>

asos_vars == <<asos_pc, asos_args, asos_frame>>

\* The state of the functions added after the search and lhf.
more_vars == <<par_vars, cache_vars, dl_vars, asos_vars>>

\* The frames of csv_reader, smap.main, s_d, q, rho and distance, and the
\* state of the functions added after them.
call_vars == <<csv_vars, smap_vars, sd_vars, hum_vars, dist_vars, more_vars>>

vars == <<geo_vars, flux_vars, call_vars>>

---------------------------------------------------------------------------
(* Inputs                                                                  *)

\* Longest station list considered.
MaxStations == 3

Deg(n) == F(n, 0)

\* The stations a list is drawn from.  With the query (40, -80), A and C
\* are equally far (10 degrees east and west) and so are B and D (10
\* degrees north and south); the query (40, -70) is at A.
Sites ==
    { [site |-> "A", lat |-> Deg(40), lon |-> Deg(-70)],
      [site |-> "B", lat |-> Deg(50), lon |-> Deg(-80)],
      [site |-> "C", lat |-> Deg(40), lon |-> Deg(-90)],
      [site |-> "D", lat |-> Deg(30), lon |-> Deg(-80)] }

Queries ==
    { <<Deg(40), Deg(-70)>>, <<Deg(40), Deg(-80)>>, <<Deg(50), Deg(-90)>>,
      <<NaN, Deg(-80)>> }

\* Station lists: every station at most once, at most MaxStations rows.
StationLists ==
    UNION { { l \in [1..n -> Sites] :
                \A a, b \in 1..n : a # b => l[a] # l[b] } : n \in 0..MaxStations }

EmptyArgs == [T_lst |-> Zero, T_air |-> Zero, T_dew |-> Zero, p_air |-> Zero,
              r_av |-> Zero, sm |-> Zero, S_d |-> Zero, LAI |-> Zero]

EmptyFrame == [q_a |-> Zero, q_sat_l |-> Zero, q_sat_g |-> Zero,
               sm_max |-> Zero, c_sw |-> Zero, r_st |-> Zero, r_c |-> Zero,
               r_soil |-> Zero, T |-> Zero, E |-> Zero, qe |-> Zero]

GeoIdle ==
    /\ fn = "" /\ crd = <<Zero, Zero>> /\ stations = <<>> /\ i = 0
    /\ dists = Zero /\ station = "" /\ pc = "idle" /\ raised = ""

FluxIdle ==
    /\ lhf_pc = "idle" /\ lhf_args = EmptyArgs /\ lhf_frame = EmptyFrame
    /\ lhf_raised = "" /\ lhf_kw = <<>>

CsvIdle ==
    /\ csv_pc = "idle"
    /\ csv_args = [data |-> <<>>, start_date |-> 0, end_date |-> 0]
    /\ csv_frame = [end_date |-> 0, data |-> <<>>, date_df |-> <<>>]

SmapIdle ==
    /\ smap_pc = "idle"
    /\ smap_arr = [lat |-> <<>>, lon |-> <<>>, data |-> <<>>]
    /\ smap_ret = <<>>

SdIdle ==
    /\ sd_pc = "idle"
    /\ sd_args = [lat |-> <<>>, lon |-> <<>>, domain |-> <<>>, dqf |-> ""]
    /\ sd_frame = [goes_idx |-> <<>>, rows |-> <<>>, cols |-> <<>>,
                   data |-> <<>>, dqf |-> <<>>]

HumIdle ==
    /\ hum_pc = "idle" /\ hum_args = [fn |-> ""] /\ hum_ret = <<>>
    /\ hum_raised = ""

DistIdle ==
    /\ dist_pc = "idle" /\ dist_args = <<>> /\ dist_ret = <<>>

\* The values the modules bind at import: qe.py lines 20-31 and
\* asos_data_reader.py line 49.
ModuleConstants ==
    [gamma |-> gamma, R |-> R, c_p |-> c_p, L_v |-> L_v, R_v |-> R_v,
     e_0 |-> e_0, R_earth |-> R_earth]

ParIdle == globals = ModuleConstants /\ threads = <<>>

CacheIdle ==
    /\ cache_pc = "idle" /\ cache_args = <<>> /\ cache_dir = <<>>
    /\ cache_frame = <<>>

DlIdle == dl_pc = "idle" /\ dl_args = <<>> /\ dl_frame = <<>> /\ dl_ret = <<>>

AsosIdle == asos_pc = "idle" /\ asos_args = <<>> /\ asos_frame = <<>>

CallsIdle ==
    /\ CsvIdle /\ SmapIdle /\ SdIdle /\ HumIdle /\ DistIdle
    /\ ParIdle /\ CacheIdle /\ DlIdle /\ AsosIdle

---------------------------------------------------------------------------
(* Nearest-station search: site_finder (reader.py), asos_find              *)
(* (asos_data_reader.py)                                                   *)

\* pandas.read_csv of log.csv: the header line names the columns, the rows
\* are the stations.
read_csv(file) == file

\* pandas.read_fwf of asos-stations.txt: the line of dashes under the header
\* is row 0, the stations follow.
read_fwf(file) == <<[site |-> "----", lat |-> NaN, lon |-> NaN]>> \o file

\* DataFrame.drop([0])
drop0(rows) == Tail(rows)

\* Lines 55-67: read the list, dists = 2*pi*R, station = ''.
site_finder_begin(lat_crd, lon_crd) ==
    /\ pc = "idle"
    /\ fn' = "site_finder"
    /\ crd' = <<lat_crd, lon_crd>>
    /\ stations' = read_csv(station_log)
    /\ dists' = FMul(FMul(Two, Pi), R_earth)
    /\ station' = ""
    /\ i' = 1
    /\ pc' = "loop"
    /\ UNCHANGED <<station_log, raised, flux_vars, call_vars>>

\* Lines 69-73: one pass of "for i in range(1, len(lat_asos))".
site_finder_step ==
    /\ pc = "loop" /\ fn = "site_finder"
    /\ i < Len(stations)
    /\ LET dist == distance(crd[1], crd[2],
                            stations[i + 1].lat, stations[i + 1].lon)
       IN  IF FLt(dist, dists)
           THEN dists' = dist /\ station' = stations[i + 1].site
           ELSE UNCHANGED <<dists, station>>
    /\ i' = i + 1
    /\ UNCHANGED <<station_log, fn, crd, stations, pc, raised, flux_vars,
                   call_vars>>

\* Line 77: return station.
site_finder_return ==
    /\ pc = "loop" /\ fn = "site_finder"
    /\ i >= Len(stations)
    /\ pc' = "done"
    /\ UNCHANGED <<station_log, fn, crd, stations, i, dists, station, raised,
                   flux_vars, call_vars>>

\* Lines 61-66: read the list, dists = 2*pi*R, station = ''.
asos_find_begin(lat_loc, lon_loc) ==
    /\ pc = "idle"
    /\ fn' = "asos_find"
    /\ crd' = <<lat_loc, lon_loc>>
    /\ stations' = drop0(read_fwf(station_log))
    /\ dists' = FMul(FMul(Two, Pi), R_earth)
    /\ station' = ""
    /\ i' = 1
    /\ pc' = "loop"
    /\ UNCHANGED <<station_log, raised, flux_vars, call_vars>>

\* Lines 68-72: one pass of "for i in range(1, len(lat_asos))".
asos_find_step ==
    /\ pc = "loop" /\ fn = "asos_find"
    /\ i < Len(stations)
    /\ LET dist == distance(crd[1], crd[2],
                            stations[i + 1].lat, stations[i + 1].lon)
       IN  IF FLt(dist, dists)
           THEN dists' = dist /\ station' = "K" \o stations[i + 1].site
           ELSE UNCHANGED <<dists, station>>
    /\ i' = i + 1
    /\ UNCHANGED <<station_log, fn, crd, stations, pc, raised, flux_vars,
                   call_vars>>

\* Line 78: return station.
asos_find_return ==
    /\ pc = "loop" /\ fn = "asos_find"
    /\ i >= Len(stations)
    /\ pc' = "done"
    /\ UNCHANGED <<station_log, fn, crd, stations, i, dists, station, raised,
                   flux_vars, call_vars>>

\* The caller (csv_reader, data_read) takes the station; the frame is gone.
search_end ==
    /\ pc = "done"
    /\ fn' = "" /\ crd' = <<Zero, Zero>> /\ stations' = <<>> /\ i' = 0
    /\ dists' = Zero /\ station' = "" /\ pc' = "idle"
    /\ UNCHANGED <<station_log, raised, flux_vars, call_vars>>

InitGeo == station_log \in StationLists /\ GeoIdle /\ FluxIdle /\ CallsIdle

NextGeo ==
    \/ \E c \in Queries : site_finder_begin(c[1], c[2])
    \/ site_finder_step
    \/ site_finder_return
    \/ \E c \in Queries : asos_find_begin(c[1], c[2])
    \/ asos_find_step
    \/ asos_find_return
    \/ search_end

SpecGeo == InitGeo /\ [][NextGeo]_vars

---------------------------------------------------------------------------
(* Latent heat flux: lhf (phys/qe.py) and the loop that calls it           *)

\* The values the arguments are drawn from.  They are what the readers of
\* the package deliver: temperatures in Kelvin, pressure in hPa, a positive
\* aerodynamic resistance, solar radiation and leaf area index >= 0 (fill
\* values arrive as NaN), and NaN for a missing observation.  Soil moisture
\* has a negative value as well as 0 and positive values.
T_values == { F(28315, -2), F(29315, -2) }

p_values == { F(101325, -2) }

r_av_values == { F(50, 0), F(200, 0) }

sm_values == { F(-1, -1), Zero, F(2, -1), F(3, -1) }

S_d_values == { Zero, F(25, 0), F(500, 0) }

LAI_values == { Zero, One, Two }

InputNames == { "T_lst", "T_air", "T_dew", "p_air", "r_av", "sm", "S_d", "LAI" }

\* The observations of a that are missing (NaN).
MissingIn(a) == { n \in InputNames : IsNaN(a[n]) }

\* Argument tuples: observed values, at most one of them missing.
LhfInputs ==
    { a \in [T_lst : T_values \cup {NaN}, T_air : T_values \cup {NaN},
             T_dew : T_values \cup {NaN}, p_air : p_values \cup {NaN},
             r_av : r_av_values \cup {NaN}, sm : sm_values \cup {NaN},
             S_d : S_d_values \cup {NaN}, LAI : LAI_values \cup {NaN}] :
        \A m, n \in MissingIn(a) : m = n }

\* Lines 94-128: a call of lhf on numpy scalars runs to its return
\* statement; numpy's divisions and nanmax warn but raise nothing.
lhf_call(a) ==
    /\ lhf_pc = "idle"
    /\ lhf_args' = a
    /\ lhf_frame' = lhf(a.T_lst, a.T_air, a.T_dew, a.p_air, a.r_av, a.sm,
                        a.S_d, a.LAI)
    /\ lhf_raised' = ""
    /\ lhf_kw' = <<>>
    /\ lhf_pc' = "done"
    /\ UNCHANGED <<geo_vars, call_vars>>

\* The names lhf binds to literals in its body (lines 103-104, 116).
CalibrationNames == {"r_st_min", "r_st_max", "c_sd", "a", "b", "c"}

\* Values a caller recalibrates with.
CalibrationValues == {F(50, 0)}

\* Line 94: lhf's signature has the eight observations and nothing else, so
\* a call with a keyword argument of another name raises TypeError before
\* the body runs.
lhf_call_kw(a, name, value) ==
    /\ lhf_pc = "idle"
    /\ lhf_args' = a
    /\ lhf_kw' = <<name, value>>
    /\ lhf_raised' = "TypeError"
    /\ lhf_frame' = EmptyFrame
    /\ lhf_pc' = "raised"
    /\ UNCHANGED <<geo_vars, call_vars>>

\* The exception leaves the caller; the frame is gone.
lhf_raise_end ==
    /\ lhf_pc = "raised"
    /\ lhf_pc' = "idle" /\ lhf_args' = EmptyArgs /\ lhf_frame' = EmptyFrame
    /\ lhf_raised' = "" /\ lhf_kw' = <<>>
    /\ UNCHANGED <<geo_vars, call_vars>>

\* Lines 133-135: the next pass of the calling loop, at the same pixel with
\* the next soil moisture reading.
lhf_next_sm(sm) ==
    /\ lhf_pc = "done"
    /\ sm # lhf_args.sm
    /\ lhf_args' = [lhf_args EXCEPT !.sm = sm]
    /\ lhf_frame' = lhf(lhf_args.T_lst, lhf_args.T_air, lhf_args.T_dew,
                        lhf_args.p_air, lhf_args.r_av, sm, lhf_args.S_d,
                        lhf_args.LAI)
    /\ lhf_raised' = ""
    /\ UNCHANGED <<lhf_pc, lhf_kw, geo_vars, call_vars>>

\* The loop ends; the frame is gone.
lhf_end ==
    /\ lhf_pc = "done"
    /\ lhf_pc' = "idle" /\ lhf_args' = EmptyArgs /\ lhf_frame' = EmptyFrame
    /\ lhf_raised' = "" /\ lhf_kw' = <<>>
    /\ UNCHANGED <<geo_vars, call_vars>>

InitFlux == station_log = <<>> /\ GeoIdle /\ FluxIdle /\ CallsIdle

NextFlux ==
    \/ \E a \in LhfInputs : lhf_call(a)
    \/ \E a \in LhfInputs, name \in CalibrationNames,
          value \in CalibrationValues : lhf_call_kw(a, name, value)
    \/ lhf_raise_end
    \/ \E sm \in sm_values \cup {NaN} : lhf_next_sm(sm)
    \/ lhf_end

SpecFlux == InitFlux /\ [][NextFlux]_vars

---------------------------------------------------------------------------
(* Hourly alignment: csv_reader (reader.py), lines 134-148                 *)

\* A datetime is a number of half hours (the step of TIMESTAMP_START in an
\* AmeriFlux file); datetime.timedelta(hours=1) is two of them.
timedelta_hour == 2

\* Longest window, in hours, and the most rows read from the file.
MaxHours == 2

MaxSamples == 3

\* The readings of a row (one column stands for all of them).
csv_values == { Zero, F(75, -1) }

\* The windows asked for: whole hours, start_date <= end_date.
Windows ==
    { <<0, n * timedelta_hour>> : n \in 0..MaxHours }

\* The datetimes of the rows: on and between the hours, from before the
\* window to after the hour that follows it.
Stamps == (0 - 1)..((MaxHours + 1) * timedelta_hour + 1)

\* The frames read from the file (lines 108-132): rows in the order of the
\* file, datetimes not decreasing, a datetime possibly repeated.
Frames ==
    UNION { { d \in [1..n -> [datetime : Stamps, value : csv_values]] :
                \A k \in 1..(n - 1) : d[k].datetime <= d[k + 1].datetime }
            : n \in 0..MaxSamples }

\* data[(data['datetime'] >= lo) & (data['datetime'] <= hi)]
between(data, lo, hi) ==
    LET keep(row) == row.datetime >= lo /\ row.datetime <= hi
    IN  SelectSeq(data, keep)

\* pd.date_range(start, end, periods): periods datetimes evenly spaced from
\* start to end, both included.
date_range(start, end, periods) ==
    [k \in 1..periods |->
        IF periods = 1 THEN start
        ELSE start + ((k - 1) * (end - start)) \div (periods - 1)]

\* pd.merge(data, date_df, how='left', on=['datetime']): the rows of data as
\* they are; date_df has no column but the key and no key twice.
merge_left(data, date_df) == data

\* pd.merge(data, date_df, how='right', on=['datetime']): the datetimes of
\* date_df in their order, each with every row of data at that datetime, or
\* with NaN when data has none.
RECURSIVE merge(_, _)
merge(data, date_df) ==
    IF date_df = <<>> THEN <<>>
    ELSE LET key      == Head(date_df)
             on(row)  == row.datetime = key
             matched  == SelectSeq(data, on)
         IN  (IF matched = <<>>
              THEN <<[datetime |-> key, value |-> NaN]>>
              ELSE matched) \o merge(data, Tail(date_df))

\* The sequence s without its element k.
drop(s, k) == SubSeq(s, 1, k - 1) \o SubSeq(s, k + 1, Len(s))

\* data.sort_values(by=['datetime']): the orders of the rows with datetimes
\* not decreasing.  The sort is not stable: rows of one datetime come in
\* any order.
RECURSIVE sort_values(_)
sort_values(data) ==
    IF data = <<>> THEN { <<>> }
    ELSE UNION { { <<data[k]>> \o rest : rest \in sort_values(drop(data, k)) }
                 : k \in { j \in 1..Len(data) :
                             \A l \in 1..Len(data) :
                                 data[j].datetime <= data[l].datetime } }

not_csv_vars ==
    <<geo_vars, flux_vars, smap_vars, sd_vars, hum_vars, dist_vars,
      more_vars>>

\* Lines 108-136 of csv_reader(crd, start_date, end_date): data is read from
\* the file, end_date is moved one hour on, data is cut to the window.
csv_filter(start_date, end_date) ==
    /\ csv_pc = "idle"
    /\ \E data \in Frames :
          /\ csv_args' = [data |-> data, start_date |-> start_date,
                          end_date |-> end_date]
          /\ csv_frame' = [end_date |-> end_date + timedelta_hour,
                           data |-> between(data, start_date,
                                            end_date + timedelta_hour),
                           date_df |-> <<>>]
    /\ csv_pc' = "filtered"
    /\ UNCHANGED not_csv_vars

\* Lines 138-142: the frame of hours, one row for each date of date_range.
\* periods is the float (end_date - start_date) in hours + 1; for a window
\* of whole hours its value is whole and pandas takes it as that integer.
csv_date_df ==
    /\ csv_pc = "filtered"
    /\ LET periods == (csv_frame.end_date - csv_args.start_date)
                          \div timedelta_hour + 1
       IN  csv_frame' =
               [csv_frame EXCEPT !.date_df =
                   date_range(csv_args.start_date, csv_frame.end_date,
                              periods)]
    /\ csv_pc' = "hours"
    /\ UNCHANGED <<csv_args, not_csv_vars>>

\* Line 144: data = pd.merge(data, date_df, how='right', on=['datetime']).
csv_merge ==
    /\ csv_pc = "hours"
    /\ csv_frame' = [csv_frame EXCEPT
                        !.data = merge(csv_frame.data, csv_frame.date_df)]
    /\ csv_pc' = "merged"
    /\ UNCHANGED <<csv_args, not_csv_vars>>

\* Lines 145-147: sort by datetime, renumber the rows, drop the last row;
\* line 154 returns data.
csv_sort_return ==
    /\ csv_pc = "merged"
    /\ \E sorted \in sort_values(csv_frame.data) :
          csv_frame' = [csv_frame EXCEPT
                           !.data = SubSeq(sorted, 1, Len(sorted) - 1)]
    /\ csv_pc' = "done"
    /\ UNCHANGED <<csv_args, not_csv_vars>>

\* The caller takes the frame; the locals are gone.
csv_end ==
    /\ csv_pc = "done"
    /\ csv_pc' = "idle"
    /\ csv_args' = [data |-> <<>>, start_date |-> 0, end_date |-> 0]
    /\ csv_frame' = [end_date |-> 0, data |-> <<>>, date_df |-> <<>>]
    /\ UNCHANGED not_csv_vars

InitCsv == station_log = <<>> /\ GeoIdle /\ FluxIdle /\ CallsIdle

NextCsv ==
    \/ \E w \in Windows : csv_filter(w[1], w[2])
    \/ csv_date_df
    \/ csv_merge
    \/ csv_sort_return
    \/ csv_end

SpecCsv == InitCsv /\ [][NextCsv]_vars

---------------------------------------------------------------------------
(* Spatial windows: main (grid/smap.py) and s_d (phys/sd.py)               *)

\* Longest axis of a grid, in pixels.
MaxAxis == 4

Min(a, b) == IF a < b THEN a ELSE b

Max(a, b) == IF a > b THEN a ELSE b

\* The Python slice s[:k]: the first k elements, or all but the last -k of
\* them when k is negative.
upto(s, k) ==
    IF k >= 0 THEN SubSeq(s, 1, Min(k, Len(s)))
    ELSE SubSeq(s, 1, Max(Len(s) + k, 0))

\* The slice [:k] of the second axis of data.
upto_cols(data, k) == [r \in 1..Len(data) |-> upto(data[r], k)]

\* The dataset of n_lat rows and n_lon columns: the axes name their rows
\* and columns, a cell of data is <<row, column>>.
Dataset(n_lat, n_lon) ==
    [lat  |-> [r \in 1..n_lat |-> r],
     lon  |-> [c \in 1..n_lon |-> c],
     data |-> [r \in 1..n_lat |-> [c \in 1..n_lon |-> <<r, c>>]]]

not_smap_vars ==
    <<geo_vars, flux_vars, csv_vars, sd_vars, hum_vars, dist_vars,
      more_vars>>

\* smap.py, lines 149-158: dim_diff and the three return statements.  The
\* calling script runs smap.main and s_d one after the other.
smap_main(arr) ==
    /\ smap_pc = "idle" /\ sd_pc = "idle"
    /\ smap_arr' = arr
    /\ LET dim_diff == Len(arr.lat) - Len(arr.lon)
       IN  smap_ret' =
               IF dim_diff > 0
               THEN <<upto(arr.lat, 0 - dim_diff), arr.lon,
                      upto(arr.data, 0 - dim_diff)>>
               ELSE IF dim_diff < 0
               THEN <<arr.lat, upto(arr.lon, 0 - dim_diff),
                      upto_cols(arr.data, 0 - dim_diff)>>
               ELSE <<arr.lat, arr.lon, arr.data>>
    /\ smap_pc' = "done"
    /\ UNCHANGED not_smap_vars

\* The caller takes the triple.
smap_end ==
    /\ smap_pc = "done"
    /\ smap_pc' = "idle"
    /\ smap_arr' = [lat |-> <<>>, lon |-> <<>>, data |-> <<>>]
    /\ smap_ret' = <<>>
    /\ UNCHANGED not_smap_vars

\* Coordinates are whole numbers of tenths of a degree.  The latitude axis
\* of a product runs north to south or south to north, the longitude axis
\* west to east.
LatAxes ==
    UNION { { [k \in 1..n |-> 10 * k], [k \in 1..n |-> 10 * (n + 1 - k)] }
            : n \in 2..MaxAxis }

LonAxes == { [k \in 1..n |-> 10 * k] : n \in 2..MaxAxis }

\* The limits of a domain: on a pixel, near one, or half way between two.
Limits == { 10, 15, 21, 30 }

\* domain = [lat_min, lat_max, lon_min, lon_max]
Domains ==
    { d \in Limits \X Limits \X Limits \X Limits : d[1] < d[2] /\ d[3] < d[4] }

\* The pixels <<row, column>> of the meshgrid, rows and columns from 0.
Pixels(lat, lon) == (0..(Len(lat) - 1)) \X (0..(Len(lon) - 1))

\* The square of the distance of pixel p from pt, as cKDTree measures it.
sqdist(lat, lon, p, pt) ==
    (lat[p[1] + 1] - pt[1]) * (lat[p[1] + 1] - pt[1])
        + (lon[p[2] + 1] - pt[2]) * (lon[p[2] + 1] - pt[2])

\* cKDTree(...).query(pt)[1]: the pixels nearest to pt; the query returns
\* one of them.
query(lat, lon, pt) ==
    { p \in Pixels(lat, lon) :
        \A o \in Pixels(lat, lon) :
            sqdist(lat, lon, p, pt) <= sqdist(lat, lon, o, pt) }

\* np.where((lat == lat.ravel()[index]) & (lon == lon.ravel()[index])),
\* first hit: the first pixel in row-major order with the coordinates of p.
where0(lat, lon, p) ==
    CHOOSE f \in Pixels(lat, lon) :
        /\ lat[f[1] + 1] = lat[p[1] + 1] /\ lon[f[2] + 1] = lon[p[2] + 1]
        /\ \A o \in Pixels(lat, lon) :
              (lat[o[1] + 1] = lat[p[1] + 1] /\ lon[o[2] + 1] = lon[p[2] + 1])
              => (f[1] < o[1] \/ (f[1] = o[1] /\ f[2] <= o[2]))

\* The indices the Python slice [a:b] takes from an axis of n pixels, for
\* a and b >= 0.
slice(n, a, b) == [k \in 1..Max(Min(b, n) - a, 0) |-> a + k - 1]

not_sd_vars ==
    <<geo_vars, flux_vars, csv_vars, smap_vars, hum_vars, dist_vars,
      more_vars>>

\* The data quality flags of a product: every pixel clear, every pixel
\* flagged (as by night), or flags 0, 1 and 2 side by side.
DqfPatterns == {"clear", "flagged", "mixed"}

\* goes_product.variables[goes_varnames[0]] at pixel (r, c): the downward
\* shortwave radiation, a number at every pixel.
product_data(r, c) == F(100 + 10 * r + c, 0)

\* goes_product.variables[goes_varnames[1]] at pixel (r, c).
product_dqf(pattern, r, c) ==
    CASE pattern = "clear" -> 0
      [] pattern = "flagged" -> 1
      [] pattern = "mixed" -> (r + 2 * c) % 3

\* data with zeros wherever any pixel of it is missing.
fill_any_nan(data) ==
    IF \E r \in DOMAIN data : \E c \in DOMAIN data[r] : IsNaN(data[r][c])
      THEN [r \in DOMAIN data |-> [c \in DOMAIN data[r] |-> Zero]]
      ELSE data

\* Line 162: data[dqf != 0] = np.nan.
mask(data, dqf) ==
    [r \in DOMAIN data |->
        [c \in DOMAIN data[r] |->
            IF dqf[r][c] # 0 THEN NaN ELSE data[r][c]]]

\* Lines 165-166: zeros of the same shape when the number of NaN pixels is
\* shape[0] * shape[1].
fill_night(data) ==
    IF \A r \in DOMAIN data : \A c \in DOMAIN data[r] : IsNaN(data[r][c])
      THEN [r \in DOMAIN data |-> [c \in DOMAIN data[r] |-> Zero]]
      ELSE data

\* sd.py, lines 136-143: the meshgrid of the axes, goes_idx = [].
s_d_begin(lat, lon, domain, pattern) ==
    /\ sd_pc = "idle" /\ smap_pc = "idle"
    /\ sd_args' = [lat |-> lat, lon |-> lon, domain |-> domain,
                   dqf |-> pattern]
    /\ sd_frame' = [goes_idx |-> <<>>, rows |-> <<>>, cols |-> <<>>,
                    data |-> <<>>, dqf |-> <<>>]
    /\ sd_pc' = "query"
    /\ UNCHANGED not_sd_vars

\* Lines 144-148: pass n of "for i, crd in enumerate(crds)".
s_d_query ==
    /\ sd_pc = "query"
    /\ LET n    == Len(sd_frame.goes_idx) \div 2
           crds == << <<sd_args.domain[1], sd_args.domain[3]>>,
                      <<sd_args.domain[2], sd_args.domain[4]>> >>
       IN  \E index \in query(sd_args.lat, sd_args.lon, crds[n + 1]) :
              LET loc == where0(sd_args.lat, sd_args.lon, index)
              IN  /\ sd_frame' = [sd_frame EXCEPT
                                     !.goes_idx = @ \o <<loc[1], loc[2]>>]
                  /\ sd_pc' = IF n = 1 THEN "swap" ELSE "query"
    /\ UNCHANGED <<sd_args, not_sd_vars>>

\* Lines 150-151: the two exchanges of goes_idx.
s_d_swap ==
    /\ sd_pc = "swap"
    /\ LET g == sd_frame.goes_idx
           h == <<g[3], g[2], g[1], g[4]>>
       IN  sd_frame' = [sd_frame EXCEPT !.goes_idx = <<h[1], h[3], h[2], h[4]>>]
    /\ sd_pc' = "slice"
    /\ UNCHANGED <<sd_args, not_sd_vars>>

\* Lines 154-159: lat, lon, data and dqf are cut to
\* [goes_idx[0]:goes_idx[1], goes_idx[2]:goes_idx[3]].
s_d_slice ==
    /\ sd_pc = "slice"
    /\ LET g    == sd_frame.goes_idx
           rows == slice(Len(sd_args.lat), g[1], g[2])
           cols == slice(Len(sd_args.lon), g[3], g[4])
       IN  sd_frame' =
             [sd_frame EXCEPT
                !.rows = rows,
                !.cols = cols,
                !.data = [r \in DOMAIN rows |->
                            [c \in DOMAIN cols |->
                                product_data(rows[r], cols[c])]],
                !.dqf = [r \in DOMAIN rows |->
                           [c \in DOMAIN cols |->
                               product_dqf(sd_args.dqf, rows[r], cols[c])]]]
    /\ sd_pc' = "mask"
    /\ UNCHANGED <<sd_args, not_sd_vars>>

\* Lines 162-166: flagged pixels become NaN; a window of NaN only becomes
\* zeros.
s_d_mask ==
    /\ sd_pc = "mask"
    /\ sd_frame' = [sd_frame EXCEPT
                      !.data = fill_night(mask(sd_frame.data, sd_frame.dqf))]
    /\ sd_pc' = "done"
    /\ UNCHANGED <<sd_args, not_sd_vars>>

\* The caller takes the window.
s_d_end ==
    /\ sd_pc = "done"
    /\ sd_pc' = "idle"
    /\ sd_args' = [lat |-> <<>>, lon |-> <<>>, domain |-> <<>>,
                   dqf |-> ""]
    /\ sd_frame' = [goes_idx |-> <<>>, rows |-> <<>>, cols |-> <<>>,
                    data |-> <<>>, dqf |-> <<>>]
    /\ UNCHANGED not_sd_vars

InitGrid == station_log = <<>> /\ GeoIdle /\ FluxIdle /\ CallsIdle

NextGrid ==
    \/ \E n_lat, n_lon \in 1..MaxAxis : smap_main(Dataset(n_lat, n_lon))
    \/ smap_end
    \/ \E lat \in LatAxes, lon \in LonAxes, domain \in Domains,
          pattern \in DqfPatterns : s_d_begin(lat, lon, domain, pattern)
    \/ s_d_query
    \/ s_d_swap
    \/ s_d_slice
    \/ s_d_mask
    \/ s_d_end

SpecGrid == InitGrid /\ [][NextGrid]_vars

---------------------------------------------------------------------------
(* Specific humidity and air density on their own: q and rho (phys/qe.py)  *)

\* The temperatures (K) and pressures (hPa) q and rho are called with:
\* observed values, values at and below zero, a temperature below 29.65 K
\* (where T - 273.15 + 243.5 changes sign), a pressure below the vapour
\* pressure of warm air, and NaN for a missing observation.
hum_T_values ==
    { F(-10, 0), Zero, F(20, 0), F(27315, -2), F(28315, -2), F(29315, -2),
      F(30315, -2), NaN }

hum_p_values == { F(-10, 0), Zero, F(10, 0), F(850, 0), F(101325, -2), NaN }

not_hum_vars ==
    <<geo_vars, flux_vars, csv_vars, smap_vars, sd_vars, dist_vars,
      more_vars>>

\* Lines 70-84: a call of q runs to its return statement; numpy.exp makes
\* e and e_s numpy scalars, so the divisions warn but raise nothing.
q_call(T_air, T_dew, p_air) ==
    /\ hum_pc = "idle"
    /\ hum_args' = [fn |-> "q", T_air |-> T_air, T_dew |-> T_dew,
                    p_air |-> p_air]
    /\ hum_ret' = q(T_air, T_dew, p_air)
    /\ hum_raised' = ""
    /\ hum_pc' = "done"
    /\ UNCHANGED not_hum_vars

\* Lines 40-42: a call of rho.  When R*T_air is zero the division gives inf
\* or NaN for numpy scalars and raises ZeroDivisionError for Python floats.
rho_call(T_air, p_air) ==
    /\ hum_pc = "idle"
    /\ hum_args' = [fn |-> "rho", T_air |-> T_air, p_air |-> p_air]
    /\ \/ /\ hum_ret' = <<rho(T_air, p_air)>>
          /\ hum_raised' = ""
       \/ /\ FEq(FMul(R, T_air), Zero)
          /\ hum_ret' = <<>>
          /\ hum_raised' = "ZeroDivisionError"
    /\ hum_pc' = "done"
    /\ UNCHANGED not_hum_vars

\* The caller takes the value; the frame is gone.
hum_end ==
    /\ hum_pc = "done"
    /\ hum_pc' = "idle" /\ hum_args' = [fn |-> ""] /\ hum_ret' = <<>>
    /\ hum_raised' = ""
    /\ UNCHANGED not_hum_vars

InitHum == station_log = <<>> /\ GeoIdle /\ FluxIdle /\ CallsIdle

NextHum ==
    \/ \E T_air, T_dew \in hum_T_values, p_air \in hum_p_values :
          q_call(T_air, T_dew, p_air)
    \/ \E T_air \in hum_T_values, p_air \in hum_p_values :
          rho_call(T_air, p_air)
    \/ hum_end

SpecHum == InitHum /\ [][NextHum]_vars

---------------------------------------------------------------------------
(* Great-circle distance on its own: distance (reader.py,                  *)
(* asos_data_reader.py)                                                    *)

\* The coordinates distance is called with: the equator, mid latitudes and
\* the north pole; longitudes a half turn and a full turn apart.
dist_lat_values == { Deg(0), Deg(40), Deg(50), Deg(90) }

dist_lon_values == { Deg(-180), Deg(-80), Deg(0), Deg(180), Deg(280) }

not_dist_vars ==
    <<geo_vars, flux_vars, csv_vars, smap_vars, sd_vars, hum_vars,
      more_vars>>

\* Lines 36-42 (reader.py), 53-56 (asos_data_reader.py): a call of distance.
distance_call(lat_crd, lon_crd, lat_stat, lon_stat) ==
    /\ dist_pc = "idle"
    /\ dist_args' = << <<lat_crd, lon_crd, lat_stat, lon_stat>> >>
    /\ dist_ret' = << distance(lat_crd, lon_crd, lat_stat, lon_stat) >>
    /\ dist_pc' = "done"
    /\ UNCHANGED not_dist_vars

\* A second call, from the station to the query: the arguments of the
\* first call with the two coordinates exchanged.
distance_back ==
    /\ dist_pc = "done"
    /\ Len(dist_args) = 1
    /\ LET a == dist_args[1]
       IN  /\ dist_args' = Append(dist_args, <<a[3], a[4], a[1], a[2]>>)
           /\ dist_ret' = Append(dist_ret, distance(a[3], a[4], a[1], a[2]))
    /\ UNCHANGED <<dist_pc, not_dist_vars>>

\* The caller takes the values.
distance_end ==
    /\ dist_pc = "done"
    /\ dist_pc' = "idle" /\ dist_args' = <<>> /\ dist_ret' = <<>>
    /\ UNCHANGED not_dist_vars

InitDist == station_log = <<>> /\ GeoIdle /\ FluxIdle /\ CallsIdle

NextDist ==
    \/ \E lat_crd, lat_stat \in dist_lat_values,
          lon_crd, lon_stat \in dist_lon_values :
          distance_call(lat_crd, lon_crd, lat_stat, lon_stat)
    \/ distance_back
    \/ distance_end

SpecDist == InitDist /\ [][NextDist]_vars

----------------------------------------------------------------------------
(* Calls running side by side: lhf, q, rho (qe.py), distance               *)
(* (asos_data_reader.py), one statement a step                             *)

\* Most callers running at once.
MaxThreads == 2

not_par_vars ==
    <<geo_vars, flux_vars, csv_vars, smap_vars, sd_vars, hum_vars, dist_vars,
      cache_vars, dl_vars, asos_vars>>

\* The calls a caller makes, each with its arguments bound to the
\* parameters of the function.
ParCalls ==
    { [fn |-> "lhf",
       args |-> [T_lst |-> F(29315, -2), T_air |-> F(28315, -2),
                 T_dew |-> F(28315, -2), p_air |-> F(101325, -2),
                 r_av |-> F(50, 0), sm |-> F(2, -1), S_d |-> F(25, 0),
                 LAI |-> Two]],
      [fn |-> "q",
       args |-> [T_air |-> F(30315, -2), T_dew |-> F(29315, -2),
                 p_air |-> F(850, 0)]],
      [fn |-> "rho",
       args |-> [T_air |-> F(29315, -2), p_air |-> F(850, 0)]],
      [fn |-> "distance",
       args |-> [lat_loc |-> Deg(40), lon_loc |-> Deg(-80),
                 lat_asos |-> Deg(50), lon_asos |-> Deg(0)]] }

\* The frame a call starts with: the parameters are its first locals.
NewFrame(f, args) == [fn |-> f, pc |-> 1, locals |-> args]

\* The frame thread t is running.
Top(th, t) == th[t].stack[Len(th[t].stack)]

\* An assignment to a name of every running frame, as if the name were
\* shared by the callers.
store_module(th, t, name, value) ==
    [u \in DOMAIN th |->
        IF th[u].stack = <<>> THEN th[u]
        ELSE [th[u] EXCEPT !.stack[Len(th[u].stack)].locals =
                               (name :> value) @@ @]]

\* An assignment inside a function body. No function of qe.py or
\* asos_data_reader.py declares a name global, so every name a body assigns
\* is a local of the running frame.
store(th, t, name, value) ==
    [th EXCEPT ![t].stack[Len(th[t].stack)].locals = (name :> value) @@ @]

\* The running frame moves to its next statement.
advance(th, t) == [th EXCEPT ![t].stack[Len(th[t].stack)].pc = @ + 1]

assign(th, t, name, value) == advance(store(th, t, name, value), t)

\* A call statement: the callee's frame goes on the thread's stack.
call(th, t, f, args) ==
    [th EXCEPT ![t].stack = Append(@, NewFrame(f, args))]

\* qe.py lines 96, 97, 122, 123: the statement of lhf that made the call
\* finishes with the value the callee returned.
resume(th, t, v) ==
    LET l == Top(th, t).locals
        n == Top(th, t).pc
    IN  CASE n = 1 -> assign(store(th, t, "q_a", v[1]), t, "q_sat_l", v[2])
          [] n = 2 -> assign(store(th, t, "_", v[1]), t, "q_sat_g", v[2])
          [] n = 14 ->
               assign(th, t, "T",
                      FDiv(FMul(v, FSub(l.q_sat_l, l.q_a)),
                           FAdd(l.r_av, l.r_c)))
          [] n = 15 ->
               assign(th, t, "E",
                      FDiv(FMul(v, FSub(l.q_sat_g, l.q_a)),
                           FAdd(l.r_av, l.r_soil)))

\* A return statement: the frame is gone; the value goes to the calling
\* frame, or to the caller of the thread.
return(th, t, v) ==
    IF Len(th[t].stack) = 1
      THEN [th EXCEPT ![t].stack = <<>>, ![t].ret = <<v>>]
      ELSE resume([th EXCEPT ![t].stack = SubSeq(@, 1, Len(@) - 1)], t, v)

\* qe.py line 42: rho reads the module's R.
rho_step(g, th, t) ==
    LET l == Top(th, t).locals
    IN  return(th, t, FDiv(FMul(l.p_air, F(100, 0)), FMul(g.R, l.T_air)))

\* qe.py lines 73-84: q reads the module's e_0 and rebinds its own T_air and
\* T_dew.
q_step(g, th, t) ==
    LET l == Top(th, t).locals
        n == Top(th, t).pc
    IN  CASE n = 1 ->
               assign(store(th, t, "T_air", FSub(l.T_air, F(27315, -2))),
                      t, "T_dew", FSub(l.T_dew, F(27315, -2)))
          [] n = 2 ->
               assign(th, t, "e",
                      FMul(g.e_0, FExp(FDiv(FMul(F(1767, -2), l.T_dew),
                                            FAdd(l.T_dew, F(2435, -1))))))
          [] n = 3 ->
               assign(th, t, "e_s",
                      FMul(g.e_0, FExp(FDiv(FMul(F(1767, -2), l.T_air),
                                            FAdd(l.T_air, F(2435, -1))))))
          [] n = 4 ->
               assign(th, t, "q_a",
                      FDiv(FMul(F(622, -3), l.e),
                           FSub(l.p_air, FMul(F(378, -3), l.e))))
          [] n = 5 ->
               assign(th, t, "q_s",
                      FDiv(FMul(F(622, -3), l.e_s),
                           FSub(l.p_air, FMul(F(378, -3), l.e_s))))
          [] n = 6 ->
               assign(th, t, "rh", FDiv(FMul(F(100, 0), l.q_a), l.q_s))
          [] n = 7 -> return(th, t, <<l.q_a, l.q_s>>)

\* asos_data_reader.py lines 53-56: distance reads the module's R.
distance_step(g, th, t) ==
    LET l == Top(th, t).locals
        n == Top(th, t).pc
    IN  CASE n = 1 -> assign(th, t, "p", FDiv(Pi, F(180, 0)))
          [] n = 2 ->
               assign(th, t, "a",
                      FAdd(FSub(Half,
                                FDiv(FCos(FMul(FSub(l.lat_asos, l.lat_loc),
                                               l.p)), Two)),
                           FDiv(FMul(FMul(FCos(FMul(l.lat_loc, l.p)),
                                          FCos(FMul(l.lat_asos, l.p))),
                                     FSub(One,
                                          FCos(FMul(FSub(l.lon_asos,
                                                         l.lon_loc), l.p)))),
                                Two)))
          [] n = 3 ->
               return(th, t,
                      FMul(FMul(Two, g.R_earth), FArcSin(FSqrt(l.a))))

\* qe.py lines 94-128: lhf calls q and rho twice each and reads the
\* module's L_v.
lhf_step(g, th, t) ==
    LET l == Top(th, t).locals
        n == Top(th, t).pc
    IN  CASE n = 1 ->
               call(th, t, "q", [T_air |-> l.T_air, T_dew |-> l.T_dew,
                                 p_air |-> l.p_air])
          [] n = 2 ->
               call(th, t, "q", [T_air |-> l.T_lst, T_dew |-> l.T_dew,
                                 p_air |-> l.p_air])
          [] n = 3 -> assign(th, t, "r_st_min", F(1, 2))
          [] n = 4 -> assign(th, t, "r_st_max", F(1, 4))
          [] n = 5 -> assign(th, t, "c_sd", F(25, 0))
          [] n = 6 -> assign(th, t, "sm_max", nanmax(l.sm))
          [] n = 7 -> assign(th, t, "c_sw", FDiv(l.sm, l.sm_max))
          [] n = 8 ->
               assign(th, t, "r_st",
                      FAdd(FDiv(l.r_st_min, l.c_sw),
                           FMul(FDiv(FSub(l.r_st_max, l.r_st_min), l.c_sw),
                                FSub(One, FTanh(FDiv(l.S_d, l.c_sd))))))
          [] n = 9 -> assign(th, t, "r_c", FDiv(l.r_st, l.LAI))
          [] n = 10 -> assign(th, t, "a", F(35, -1))
          [] n = 11 -> assign(th, t, "b", F(23, -1))
          [] n = 12 -> assign(th, t, "c", F(4335, -1))
          [] n = 13 ->
               assign(th, t, "r_soil",
                      FAdd(FMul(l.a, FPow(FDiv(l.sm_max, l.sm), l.b)), l.c))
          [] n \in {14, 15} ->
               call(th, t, "rho", [T_air |-> l.T_air, p_air |-> l.p_air])
          [] n = 16 -> assign(th, t, "qe", FMul(FAdd(l.T, l.E), g.L_v))
          [] n = 17 -> return(th, t, l.qe)

\* A caller starts a call while others may be running.
thread_start(c) ==
    /\ Len(threads) < MaxThreads
    /\ threads' = Append(threads, [call |-> c, ret |-> <<>>,
                                   stack |-> <<NewFrame(c.fn, c.args)>>])
    /\ UNCHANGED <<globals, not_par_vars>>

\* Thread t runs the next statement of its running frame. The statement
\* reads module-level names and assigns locals; none assigns a module-level
\* name.
thread_step(t) ==
    /\ t \in DOMAIN threads
    /\ threads[t].stack # <<>>
    /\ threads' =
         CASE Top(threads, t).fn = "lhf" -> lhf_step(globals, threads, t)
           [] Top(threads, t).fn = "q" -> q_step(globals, threads, t)
           [] Top(threads, t).fn = "rho" -> rho_step(globals, threads, t)
           [] Top(threads, t).fn = "distance" ->
                distance_step(globals, threads, t)
    /\ UNCHANGED <<globals, not_par_vars>>

\* Every call has returned; the callers take their results.
threads_end ==
    /\ threads # <<>>
    /\ \A t \in DOMAIN threads : threads[t].stack = <<>>
    /\ threads' = <<>>
    /\ UNCHANGED <<globals, not_par_vars>>

InitPar == station_log = <<>> /\ GeoIdle /\ FluxIdle /\ CallsIdle

NextPar ==
    \/ \E c \in ParCalls : thread_start(c)
    \/ \E t \in 1..MaxThreads : thread_step(t)
    \/ threads_end

SpecPar == InitPar /\ [][NextPar]_vars

----------------------------------------------------------------------------
(* Cached products: main (grid/smap.py, lines 107-136) and main            *)
(* (grid/lai.py, lines 87-112)                                             *)

\* Most files in a folder before the first call.
MaxFiles == 2

\* The days a file or a request begins and ends at.
Days == {1, 2}

not_cache_vars ==
    <<geo_vars, flux_vars, csv_vars, smap_vars, sd_vars, hum_vars, dist_vars,
      par_vars, dl_vars, asos_vars>>

\* The name VARNAME_lat_lon_sYYYYmmdd_eYYYYmmdd.nc.
NcName(var, pt, s, e) ==
    [ext |-> "nc", var |-> var, pt |-> pt, s |-> s, e |-> e]

\* A file of the folder that is no product.
OtherName == [ext |-> "txt", var |-> "README", pt |-> <<>>, s |-> 0, e |-> 0]

\* The variable the files of each folder are named after.
VarOf(f) == IF f = "smap" THEN "soil_moisture" ELSE "lai"

Center == <<40, -80>>

\* The names a folder holds.
FileNames(f) ==
    { NcName(VarOf(f), Center, s, e) : s \in Days, e \in Days } \cup {OtherName}

\* What a file holds: the days of its data, and whether this run wrote it.
Content(s, e, written) == [s |-> s, e |-> e, written |-> written]

\* Folders before the first call: each product file holds the days its name
\* says.
Folders(f) ==
    { [n \in S |-> Content(n.s, n.e, FALSE)] :
        S \in { T \in SUBSET { m \in FileNames(f) : m.s <= m.e } :
                  Cardinality(T) <= MaxFiles } }

\* os.listdir: the names of the folder in an arbitrary order.
listdir(d) ==
    { l \in [1..Cardinality(DOMAIN d) -> DOMAIN d] :
        \A j, k \in DOMAIN l : l[j] = l[k] => j = k }

Requests ==
    { [domain_center |-> Center, date_range |-> r] :
        r \in { x \in Days \X Days : x[1] <= x[2] } }

\* smap.py lines 112-113, lai.py line 103: the name built from the request.
built(f, req) ==
    NcName(VarOf(f), req.domain_center, req.date_range[1], req.date_range[2])

\* smap.py line 124, lai.py line 98: the dates of the file name span the
\* requested range.
covers(name, req) ==
    name.s <= req.date_range[1] /\ name.e >= req.date_range[2]

\* to_netcdf(path): the file of that name holds the dataset, whether or not
\* there was one before.
to_netcdf(d, name, req) ==
    [n \in DOMAIN d \cup {name} |->
        IF n = name THEN Content(req.date_range[1], req.date_range[2], TRUE)
        ELSE d[n]]

\* smap.py lines 112-118: fname and fpath are built from the request, then
\* the folder is listed. lai.py lines 90-92: no name is built before the
\* folder is listed.
main_begin(f, req) ==
    /\ cache_pc = "idle"
    /\ \E l \in listdir(cache_dir[f]) :
          /\ cache_args' = [f |-> f, req |-> req, before |-> cache_dir[f]]
          /\ cache_frame' =
               [listing |-> l, k |-> 1, file_exists |-> FALSE,
                fname |-> IF f = "smap" THEN <<built(f, req)>> ELSE <<>>,
                fpath |-> IF f = "smap" THEN <<built(f, req)>> ELSE <<>>,
                opened |-> <<>>, written |-> <<>>]
    /\ cache_pc' = "loop"
    /\ UNCHANGED <<cache_dir, not_cache_vars>>

\* smap.py lines 118-127: one pass of `for fname in os.listdir(...)`. The
\* loop variable is fname, the name that held the built file name.
smap_iter ==
    /\ cache_pc = "loop" /\ cache_args.f = "smap"
    /\ cache_frame.k <= Len(cache_frame.listing)
    /\ LET name == cache_frame.listing[cache_frame.k]
           fr   == [cache_frame EXCEPT !.fname = <<name>>]
       IN  IF name.ext = "nc" /\ covers(name, cache_args.req)
             THEN /\ cache_frame' = [fr EXCEPT !.file_exists = TRUE,
                                               !.fpath = <<name>>]
                  /\ cache_pc' = "after"
             ELSE /\ cache_frame' = [fr EXCEPT !.k = @ + 1]
                  /\ cache_pc' = "loop"
    /\ UNCHANGED <<cache_args, cache_dir, not_cache_vars>>

\* lai.py lines 92-101: one pass of `for file in os.listdir(...)`. The
\* break is in the body of `if file.endswith('.nc')`, after the date test.
lai_iter ==
    /\ cache_pc = "loop" /\ cache_args.f = "lai"
    /\ cache_frame.k <= Len(cache_frame.listing)
    /\ LET name == cache_frame.listing[cache_frame.k]
       IN  IF name.ext = "nc"
             THEN /\ cache_frame' =
                       IF covers(name, cache_args.req)
                         THEN [cache_frame EXCEPT !.file_exists = TRUE,
                                                  !.fname = <<name>>]
                         ELSE cache_frame
                  /\ cache_pc' = "after"
             ELSE /\ cache_frame' = [cache_frame EXCEPT !.k = @ + 1]
                  /\ cache_pc' = "loop"
    /\ UNCHANGED <<cache_args, cache_dir, not_cache_vars>>

\* The listing is exhausted.
main_loop_end ==
    /\ cache_pc = "loop"
    /\ cache_frame.k > Len(cache_frame.listing)
    /\ cache_pc' = "after"
    /\ UNCHANGED <<cache_args, cache_dir, cache_frame, not_cache_vars>>

\* smap.py lines 131-135: the dataset is read and written under fname, or
\* the file at fpath is opened.
smap_access ==
    /\ cache_pc = "after" /\ cache_args.f = "smap"
    /\ IF ~cache_frame.file_exists
         THEN /\ cache_dir' =
                   [cache_dir EXCEPT !.smap =
                       to_netcdf(@, cache_frame.fname[1], cache_args.req)]
              /\ cache_frame' =
                   [cache_frame EXCEPT !.written = cache_frame.fname]
         ELSE /\ cache_frame' =
                   [cache_frame EXCEPT !.opened = cache_frame.fpath]
              /\ UNCHANGED cache_dir
    /\ cache_pc' = "done"
    /\ UNCHANGED <<cache_args, not_cache_vars>>

\* lai.py lines 102-112: the name is built when no file was found; the data
\* are pulled and written, or the file is opened.
lai_access ==
    /\ cache_pc = "after" /\ cache_args.f = "lai"
    /\ IF ~cache_frame.file_exists
         THEN LET name == built("lai", cache_args.req)
              IN  /\ cache_dir' =
                        [cache_dir EXCEPT !.lai =
                            to_netcdf(@, name, cache_args.req)]
                  /\ cache_frame' =
                        [cache_frame EXCEPT !.fname = <<name>>,
                                            !.fpath = <<name>>,
                                            !.written = <<name>>]
         ELSE /\ cache_frame' =
                   [cache_frame EXCEPT !.fpath = cache_frame.fname,
                                       !.opened = cache_frame.fname]
              /\ UNCHANGED cache_dir
    /\ cache_pc' = "done"
    /\ UNCHANGED <<cache_args, not_cache_vars>>

\* main returns; its locals are gone, the files stay.
main_end ==
    /\ cache_pc = "done"
    /\ cache_pc' = "idle" /\ cache_args' = <<>> /\ cache_frame' = <<>>
    /\ UNCHANGED <<cache_dir, not_cache_vars>>

InitCache ==
    /\ station_log = <<>> /\ GeoIdle /\ FluxIdle
    /\ CsvIdle /\ SmapIdle /\ SdIdle /\ HumIdle /\ DistIdle
    /\ ParIdle /\ DlIdle /\ AsosIdle
    /\ cache_pc = "idle" /\ cache_args = <<>> /\ cache_frame = <<>>
    /\ \E ds \in Folders("smap"), dl \in Folders("lai") :
          cache_dir = [smap |-> ds, lai |-> dl]

NextCache ==
    \/ \E f \in {"smap", "lai"}, req \in Requests : main_begin(f, req)
    \/ smap_iter
    \/ lai_iter
    \/ main_loop_end
    \/ smap_access
    \/ lai_access
    \/ main_end

SpecCache == InitCache /\ [][NextCache]_vars

----------------------------------------------------------------------------
(* GOES files: data_download and main (phys/sd.py, lines 30-125, 170-181)  *)

\* Most files in the bucket or in the local folder.
MaxBlobs == 2

\* Hours a file ends in, and hours asked for.
Hours == {1, 2}

not_dl_vars ==
    <<geo_vars, flux_vars, csv_vars, smap_vars, sd_vars, hum_vars, dist_vars,
      par_vars, cache_vars, asos_vars>>

\* A GOES file: the hour of its end time and whether Dataset can open it;
\* and a file of the folder that is no .nc file.
GoesFiles ==
    [ext : {"nc"}, hour : Hours, ok : BOOLEAN]
    \cup {[ext |-> "txt", hour |-> 0, ok |-> FALSE]}

\* The files of the bucket or of goes_data/s_d, in listing order.
Listings ==
    { l \in UNION { [1..n -> GoesFiles] : n \in 0..MaxBlobs } :
        \A j, k \in DOMAIN l : l[j] = l[k] => j = k }

\* Python's None, a pair and a triple, as returned values.
None == [kind |-> "None"]

Pair(product, varnames) ==
    [kind |-> "pair", product |-> product, varnames |-> varnames]

Triple(lat, lon, data) ==
    [kind |-> "triple", lat |-> lat, lon |-> lon, data |-> data]

\* Lines 51-52: the blobs under the prefix of the hour.
list_blobs(l, date) == SelectSeq(l, LAMBDA f : f.ext = "nc" /\ f.hour = date)

\* Lines 92-101: the .nc files of the folder.
nc_files(l) == SelectSeq(l, LAMBDA f : f.ext = "nc")

\* Lines 103-107: the files whose end time is in the hour of date.
matching(vec, date) == SelectSeq(vec, LAMBDA f : f.hour = date)

\* The first file of temp that can be opened, if there is one.
try_open_any(temp) ==
    LET good == SelectSeq(temp, LAMBDA f : f.ok)
    IN  IF good = <<>> THEN Pair(None, None)
        ELSE Pair(good[1], <<"DSR", "DQF">>)

\* Lines 111-125: Dataset(temp[0]) inside try; IndexError for an empty temp
\* and the error of a file that cannot be opened both end in the except
\* clause, which returns (None, None).
try_open(temp) ==
    IF temp = <<>> \/ ~temp[1].ok THEN Pair(None, None)
    ELSE Pair(temp[1], <<"DSR", "DQF">>)

\* Lines 30-41: the call; main (line 171) calls with bucket=None.
data_download(caller, bucket, date, l) ==
    /\ dl_pc = "idle"
    /\ dl_args' = [caller |-> caller, bucket |-> bucket, date |-> date,
                   listing |-> l]
    /\ dl_frame' = [date |-> date, goes_16_file_vec |-> <<>>, temp |-> <<>>,
                    blobs_16 |-> <<>>, kk_16 |-> 0, goes_product |-> <<>>,
                    searched |-> {}, s_d_called |-> FALSE]
    /\ dl_ret' = <<>>
    /\ dl_pc' = "while"
    /\ UNCHANGED not_dl_vars

\* Lines 43-52, 91: the test of `while goes_16_file_vec == []` and the head
\* of its body. When the test fails the function ends without a return
\* statement.
dl_while ==
    /\ dl_pc = "while"
    /\ IF dl_frame.goes_16_file_vec = <<>>
         THEN /\ dl_frame' =
                   [dl_frame EXCEPT
                      !.searched = @ \cup {dl_frame.date},
                      !.blobs_16 =
                          IF dl_args.bucket
                            THEN list_blobs(dl_args.listing, dl_frame.date)
                            ELSE <<>>,
                      !.kk_16 = 0]
              /\ dl_pc' = IF dl_args.bucket THEN "blobs" ELSE "listdir"
              /\ UNCHANGED dl_ret
         ELSE /\ dl_ret' = <<None>>
              /\ dl_pc' = "returned"
              /\ UNCHANGED dl_frame
    /\ UNCHANGED <<dl_args, not_dl_vars>>

\* Lines 54-83: one pass of the loop over the blobs: the first file of the
\* vector is downloaded and opened; a file that cannot be opened is
\* downloaded again and opened outside any try.
dl_blob ==
    /\ dl_pc = "blobs"
    /\ dl_frame.kk_16 < Len(dl_frame.blobs_16)
    /\ LET vec == Append(dl_frame.goes_16_file_vec,
                         dl_frame.blobs_16[dl_frame.kk_16 + 1])
       IN  IF vec[1].ok
             THEN /\ dl_frame' = [dl_frame EXCEPT !.goes_16_file_vec = vec,
                                                  !.kk_16 = @ + 1,
                                                  !.goes_product = <<vec[1]>>]
                  /\ dl_pc' = "blobs"
             ELSE /\ dl_frame' = [dl_frame EXCEPT !.goes_16_file_vec = vec]
                  /\ dl_pc' = "raised"
    /\ UNCHANGED <<dl_args, dl_ret, not_dl_vars>>

\* The blobs are exhausted: back to the test of the while loop, with the
\* date it had.
dl_blobs_end ==
    /\ dl_pc = "blobs"
    /\ dl_frame.kk_16 = Len(dl_frame.blobs_16)
    /\ dl_pc' = "while"
    /\ UNCHANGED <<dl_args, dl_frame, dl_ret, not_dl_vars>>

\* Lines 91-107: the .nc files of goes_data/s_d, and those of the hour.
dl_listdir ==
    /\ dl_pc = "listdir"
    /\ dl_frame' =
         [dl_frame EXCEPT
            !.goes_16_file_vec = nc_files(dl_args.listing),
            !.temp = matching(nc_files(dl_args.listing), dl_frame.date)]
    /\ dl_pc' = "try"
    /\ UNCHANGED <<dl_args, dl_ret, not_dl_vars>>

\* Lines 111-125: try, except and both return statements. The date moves
\* back only after temp[0] was opened and with an empty file vector, and
\* the return statement follows it.
dl_try ==
    /\ dl_pc = "try"
    /\ LET r == try_open(dl_frame.temp)
       IN  /\ dl_frame' =
                [dl_frame EXCEPT
                   !.goes_product =
                       IF r.product = None THEN <<>> ELSE <<r.product>>,
                   !.date = IF r.product # None
                               /\ dl_frame.goes_16_file_vec = <<>>
                              THEN @ - 1 ELSE @]
           /\ dl_ret' = <<r>>
    /\ dl_pc' = "returned"
    /\ UNCHANGED <<dl_args, not_dl_vars>>

\* Lines 171-181: main takes the pair; s_d is called unless both are None.
main_return ==
    /\ dl_pc = "returned" /\ dl_args.caller = "main"
    /\ IF dl_ret[1].product = None /\ dl_ret[1].varnames = None
         THEN /\ dl_ret' = Append(dl_ret, Triple(None, None, None))
              /\ UNCHANGED dl_frame
         ELSE /\ dl_ret' = Append(dl_ret, Triple("lat", "lon", "data"))
              /\ dl_frame' = [dl_frame EXCEPT !.s_d_called = TRUE]
    /\ dl_pc' = "main_done"
    /\ UNCHANGED <<dl_args, not_dl_vars>>

\* The caller has the result, or the exception; the frames are gone.
dl_end ==
    /\ \/ dl_pc = "returned" /\ dl_args.caller # "main"
       \/ dl_pc \in {"main_done", "raised"}
    /\ dl_pc' = "idle" /\ dl_args' = <<>> /\ dl_frame' = <<>>
    /\ dl_ret' = <<>>
    /\ UNCHANGED not_dl_vars

InitDl == station_log = <<>> /\ GeoIdle /\ FluxIdle /\ CallsIdle

NextDl ==
    \/ \E bucket \in BOOLEAN, date \in Hours, l \in Listings :
          data_download("caller", bucket, date, l)
    \/ \E date \in Hours, l \in Listings : data_download("main", FALSE, date, l)
    \/ dl_while
    \/ dl_blob
    \/ dl_blobs_end
    \/ dl_listdir
    \/ dl_try
    \/ main_return
    \/ dl_end

SpecDl == InitDl /\ [][NextDl]_vars

\* The interpreter goes on running the call: a statement that can run does.
SpecDlFair == SpecDl /\ WF_vars(NextDl)

----------------------------------------------------------------------------
(* ASOS five-minute records: data_read (asos_data_reader.py, lines 86-148) *)

\* Most lines in a .dat file.
MaxRows == 15

\* Most records of a file without a parsable temperature or wind field.
MaxBad == 1

\* Line 136: every 12th entry of the lists is kept.
entries_per_hour == 12

not_asos_vars ==
    <<geo_vars, flux_vars, csv_vars, smap_vars, sd_vars, hum_vars, dist_vars,
      par_vars, cache_vars, dl_vars>>

\* Minutes in h hours.
minutes(h) == 60 * h

\* The lines of a file: one record every five minutes from minute 0, those
\* of bad without a field the patterns match.
DatFile(n, bad) ==
    [k \in 1..n |->
        [station |-> "KJFK", t |-> 5 * (k - 1), T |-> 20 + (k % 3),
         u |-> 5 + (k % 2), ok |-> k \notin bad]]

DatFiles ==
    { DatFile(n, bad) :
        n \in {MaxRows - 1, MaxRows},
        bad \in { b \in SUBSET (1..MaxRows) : Cardinality(b) <= MaxBad } }

\* The date ranges asked for, in minutes.
DateRanges == { <<s, e>> : s \in {0, 5}, e \in {5 * (MaxRows - 2), 5 * MaxRows} }

\* Line 101: pandas.read_table takes the first line as the header.
read_table(lines) == Tail(lines)

\* lst[::12]
every_12th(lst) ==
    [k \in 1..((Len(lst) + entries_per_hour - 1) \div entries_per_hour) |->
        lst[(k - 1) * entries_per_hour + 1]]

\* Lines 27-31.
CtoK(T) == FAdd(F(T, 0), F(27315, -2))

KTtoMS(u) == FMul(F(u, 0), F(51444, -5))

\* Lines 86-109: the file is read and the lists are empty.
data_read(start_date, end_date) ==
    /\ asos_pc = "idle"
    /\ \E lines \in DatFiles :
          /\ asos_args' = [start_date |-> start_date, end_date |-> end_date,
                           lines |-> lines]
          /\ asos_frame' = [data |-> read_table(lines), row |-> 1,
                            date_list |-> <<>>, station_list |-> <<>>,
                            T_list |-> <<>>, u_list |-> <<>>, df |-> <<>>]
    /\ asos_pc' = "loop"
    /\ UNCHANGED not_asos_vars

\* Lines 123-132: one row; it is kept when its time is in the range and both
\* patterns match.
data_read_row ==
    /\ asos_pc = "loop"
    /\ asos_frame.row <= Len(asos_frame.data)
    /\ LET r == asos_frame.data[asos_frame.row]
       IN  asos_frame' =
             IF asos_args.start_date <= r.t /\ r.t <= asos_args.end_date
                /\ r.ok
               THEN [asos_frame EXCEPT
                       !.row = @ + 1,
                       !.T_list = Append(@, r.T),
                       !.u_list = Append(@, r.u),
                       !.station_list = Append(@, r.station),
                       !.date_list = Append(@, r.t)]
               ELSE [asos_frame EXCEPT !.row = @ + 1]
    /\ UNCHANGED <<asos_pc, asos_args, not_asos_vars>>

\* Lines 136-148: every 12th entry of each list, the unit conversions and
\* the five hours from EST to UTC.
data_read_frame ==
    /\ asos_pc = "loop"
    /\ asos_frame.row > Len(asos_frame.data)
    /\ LET T_list   == every_12th(asos_frame.T_list)
           u_list   == every_12th(asos_frame.u_list)
           stations_ == every_12th(asos_frame.station_list)
           dates    == every_12th(asos_frame.date_list)
       IN  asos_frame' =
             [asos_frame EXCEPT
                !.df = [k \in 1..Len(dates) |->
                          [station |-> stations_[k],
                           date |-> dates[k] + minutes(5),
                           T_air |-> CtoK(T_list[k]),
                           u_r |-> KTtoMS(u_list[k])]]]
    /\ asos_pc' = "done"
    /\ UNCHANGED <<asos_args, not_asos_vars>>

\* Line 148: df is returned; the frame is gone.
data_read_end ==
    /\ asos_pc = "done"
    /\ asos_pc' = "idle" /\ asos_args' = <<>> /\ asos_frame' = <<>>
    /\ UNCHANGED not_asos_vars

InitAsos == station_log = <<>> /\ GeoIdle /\ FluxIdle /\ CallsIdle

NextAsos ==
    \/ \E r \in DateRanges : data_read(r[1], r[2])
    \/ data_read_row
    \/ data_read_frame
    \/ data_read_end

SpecAsos == InitAsos /\ [][NextAsos]_vars

---------------------------------------------------------------------------
(* Properties of the nearest-station search                                *)

\* The distance of every station from every query, as distance computes it.
Dist == [c \in Queries, s \in Sites |-> distance(c[1], c[2], s.lat, s.lon)]

\* The identifier the running search returns for a row.
NameOf(row) == IF fn = "asos_find" THEN "K" \o row.site ELSE row.site

\* A finished search of a non-empty list for a valid query coordinate.
SearchDone ==
    /\ pc = "done"
    /\ Len(station_log) > 0
    /\ IsFinite(crd[1]) /\ IsFinite(crd[2])

\* Row k of the list is at least as near to the query as every row.
Nearest(k) ==
    \A j \in 1..Len(station_log) :
        FLe(Dist[crd, station_log[k]], Dist[crd, station_log[j]])

\* C1: for a non-empty station list and a valid query, the search returns a
\* station whose distance to the query is <= the distance of every station
\* of the list, the first-listed station included.
C1_ReturnsNearest ==
    SearchDone =>
        \E k \in 1..Len(station_log) :
            station = NameOf(station_log[k]) /\ Nearest(k)

\* C9: when several stations are at the same minimal distance, the search
\* returns the one that comes earliest in the list.
C9_TieGoesToEarliest ==
    (SearchDone /\ \E k, j \in 1..Len(station_log) :
                       k # j /\ Nearest(k) /\ Nearest(j))
    => \E k \in 1..Len(station_log) :
          /\ station = NameOf(station_log[k])
          /\ Nearest(k)
          /\ \A j \in 1..(k - 1) : ~Nearest(j)

\* C10: a search over an empty station list ends with the error
\* EmptyCandidateSet; it returns no station identifier.
C10_EmptyListRaises ==
    (pc = "done" /\ Len(station_log) = 0) => raised = "EmptyCandidateSet"

\* C11: a search whose query latitude or longitude is NaN ends with the
\* error InvalidCoordinate; it returns no station identifier.  Stated for
\* the lists on which the loop compares a distance, two rows or more.
C11_NanQueryRaises ==
    (/\ pc = "done"
     /\ Len(station_log) > 1
     /\ (IsNaN(crd[1]) \/ IsNaN(crd[2])))
    => raised = "InvalidCoordinate"

---------------------------------------------------------------------------
(* Properties of lhf                                                       *)

\* lhf has returned and every argument was an observed value.
LhfDone == lhf_pc = "done" /\ MissingIn(lhf_args) = {}

\* C2: when T_surface = T_air = T_dew, with positive pressure, non-zero
\* leaf area index and positive soil moisture, lhf returns a flux of zero,
\* whatever the aerodynamic resistance, soil moisture, solar radiation and
\* leaf area index.
C2_SaturatedFluxIsZero ==
    (/\ LhfDone
     /\ FEq(lhf_args.T_lst, lhf_args.T_air)
     /\ FEq(lhf_args.T_air, lhf_args.T_dew)
     /\ FLt(Zero, lhf_args.p_air)
     /\ ~FEq(lhf_args.LAI, Zero)
     /\ FLt(Zero, lhf_args.sm))
    => FEq(lhf_frame.qe, Zero)

\* C2 happens: equal temperatures, light on a canopy, a flux of zero.
C2_Witness ==
    /\ LhfDone
    /\ FEq(lhf_args.T_lst, lhf_args.T_air)
    /\ FEq(lhf_args.T_air, lhf_args.T_dew)
    /\ lhf_args.r_av = F(200, 0)
    /\ lhf_args.sm = F(2, -1)
    /\ lhf_args.S_d = F(25, 0)
    /\ lhf_args.LAI = Two
    /\ FEq(lhf_frame.qe, Zero)

\* C3: with a leaf area index of 0 the call ends with the error
\* DivisionSingularity; no flux value is returned.
C3_ZeroLaiRaises ==
    (lhf_pc = "done" /\ FEq(lhf_args.LAI, Zero))
    => lhf_raised = "DivisionSingularity"

\* C4: with soil moisture <= 0 the call ends with the error
\* DivisionSingularity before the resistance formulas are evaluated; no
\* flux value is returned.
C4_NonPositiveMoistureRaises ==
    (lhf_pc = "done" /\ FLe(lhf_args.sm, Zero))
    => lhf_raised = "DivisionSingularity"

\* C5: two calls that differ in their positive soil moisture alone yield
\* different soil resistances and different canopy resistances.
C5_MoistureChangesResistances ==
    [][(/\ LhfDone /\ LhfDone'
        /\ FLt(Zero, lhf_args.sm) /\ FLt(Zero, lhf_args'.sm)
        /\ ~FEq(lhf_args.sm, lhf_args'.sm))
       => (/\ ~FEq(lhf_frame.r_soil, lhf_frame'.r_soil)
           /\ ~FEq(lhf_frame.r_c, lhf_frame'.r_c))]_vars

\* C6: if an input of lhf is missing (NaN), the flux returned is missing
\* (NaN): not a number, and not an error.
C6_MissingInputMissingFlux ==
    (lhf_pc = "done" /\ MissingIn(lhf_args) # {})
    => (IsNaN(lhf_frame.qe) /\ lhf_raised = "")

\* C6 happens: the solar radiation alone is missing, where the soil path
\* has a flux of its own, and the flux returned is missing.
C6_Witness ==
    /\ lhf_pc = "done"
    /\ MissingIn(lhf_args) = {"S_d"}
    /\ IsFinite(lhf_frame.E) /\ lhf_frame.E.m # 0
    /\ IsNaN(lhf_frame.qe)

\* C7: lhf does not clamp: when the specific humidity q_a exceeds the
\* saturation humidity at the air and at the surface temperature and both
\* path resistances are positive, the flux returned is strictly negative.
C7_CondensationIsNegative ==
    (/\ lhf_pc = "done"
     /\ FLt(lhf_frame.q_sat_l, lhf_frame.q_a)
     /\ FLt(lhf_frame.q_sat_g, lhf_frame.q_a)
     /\ FLt(Zero, FAdd(lhf_args.r_av, lhf_frame.r_c))
     /\ FLt(Zero, FAdd(lhf_args.r_av, lhf_frame.r_soil)))
    => FLt(lhf_frame.qe, Zero)

\* C7 happens: the dewpoint is above the air and surface temperatures and
\* the flux is negative.
C7_Witness ==
    /\ LhfDone
    /\ FLt(lhf_args.T_air, lhf_args.T_dew)
    /\ FLt(lhf_args.T_lst, lhf_args.T_dew)
    /\ FLt(lhf_frame.q_sat_l, lhf_frame.q_a)
    /\ FLt(lhf_frame.q_sat_g, lhf_frame.q_a)
    /\ FLt(Zero, lhf_frame.r_c) /\ FLt(Zero, lhf_frame.r_soil)
    /\ FLt(lhf_frame.qe, Zero)

\* C8: whenever lhf returns a flux, the canopy resistance and the soil
\* resistance it computed are strictly positive and finite.
C8_ResistancesPositiveFinite ==
    (LhfDone /\ lhf_raised = "" /\ IsFinite(lhf_frame.qe))
    => (/\ IsFinite(lhf_frame.r_c) /\ FLt(Zero, lhf_frame.r_c)
        /\ IsFinite(lhf_frame.r_soil) /\ FLt(Zero, lhf_frame.r_soil))

---------------------------------------------------------------------------
(* Properties of the hourly alignment                                      *)

\* The hours of the window asked for, both ends included.
WindowHours ==
    { h \in csv_args.start_date..csv_args.end_date :
        (h - csv_args.start_date) % timedelta_hour = 0 }

\* The rows of data at the datetime h, and those of them with the value v.
RowsAt(data, h) == { k \in 1..Len(data) : data[k].datetime = h }

RowsWith(data, h, v) == { k \in RowsAt(data, h) : data[k].value = v }

\* C12: for every window of whole hours with start <= end and every ordered
\* sequence of rows, repeated and off-hour datetimes included, csv_reader
\* returns exactly (end - start in hours) + 1 rows.
C12_OneRowPerHour ==
    csv_pc = "done"
    => Len(csv_frame.data) =
           (csv_args.end_date - csv_args.start_date) \div timedelta_hour + 1

\* C13: in the frame csv_reader returns, every hour of the window without a
\* row of the file at exactly that datetime is there once, with NaN for its
\* value; every hour with rows of the file carries the values of those rows.
C13_HoursMissingOrCarried ==
    csv_pc = "done"
    => \A h \in WindowHours :
          IF RowsAt(csv_args.data, h) = {}
          THEN /\ Cardinality(RowsAt(csv_frame.data, h)) = 1
               /\ \A k \in RowsAt(csv_frame.data, h) :
                     IsNaN(csv_frame.data[k].value)
          ELSE \A v \in csv_values \cup {NaN} :
                  Cardinality(RowsWith(csv_frame.data, h, v))
                      = Cardinality(RowsWith(csv_args.data, h, v))

\* C13 happens: a window of two hours, the file has a reading at the first
\* hour, one between the hours and none at the second and third hours; the
\* frame returned has the reading, then NaN, then NaN.
C13_Witness ==
    /\ csv_pc = "done"
    /\ csv_args.start_date = 0
    /\ csv_args.end_date = 2 * timedelta_hour
    /\ csv_args.data = <<[datetime |-> 0, value |-> F(75, -1)],
                         [datetime |-> 1, value |-> Zero]>>
    /\ csv_frame.data = <<[datetime |-> 0, value |-> F(75, -1)],
                          [datetime |-> timedelta_hour, value |-> NaN],
                          [datetime |-> 2 * timedelta_hour, value |-> NaN]>>

---------------------------------------------------------------------------
(* Properties of the spatial windows                                       *)

\* C14: for a grid of n_lat rows and n_lon columns, the axes smap.main
\* returns both have the length min(n_lat, n_lon), whichever of the two is
\* the longer, and the data is cut to the same square.
C14_SquareTruncation ==
    smap_pc = "done"
    => LET n == Min(Len(smap_arr.lat), Len(smap_arr.lon))
       IN  /\ Len(smap_ret[1]) = n
           /\ Len(smap_ret[2]) = n
           /\ Len(smap_ret[3]) = n
           /\ \A r \in 1..Len(smap_ret[3]) : Len(smap_ret[3][r]) = n

\* The pixels a query of the corner c of the domain (1 for lat_min, lon_min;
\* 2 for lat_max, lon_max) can return.
CornerPixels(c) ==
    query(sd_args.lat, sd_args.lon,
          <<sd_args.domain[c], sd_args.domain[c + 2]>>)

\* The window has every row and column from pixel a to pixel b.
Covers(a, b) ==
    /\ \A r \in Min(a[1], b[1])..Max(a[1], b[1]) :
          \E k \in 1..Len(sd_frame.rows) : sd_frame.rows[k] = r
    /\ \A c \in Min(a[2], b[2])..Max(a[2], b[2]) :
          \E k \in 1..Len(sd_frame.cols) : sd_frame.cols[k] = c

\* C15: the window s_d extracts has the pixel nearest to the corner
\* (lat_min, lon_min), the pixel nearest to the corner (lat_max, lon_max)
\* and every row and column between them, whichever way the latitude axis
\* runs.
C15_WindowCoversDomain ==
    sd_pc = "done"
    => \E a \in CornerPixels(1), b \in CornerPixels(2) : Covers(a, b)

---------------------------------------------------------------------------
(* Properties of q and rho                                                 *)

\* q has returned and none of its arguments was missing.
QDone ==
    /\ hum_pc = "done" /\ hum_args.fn = "q"
    /\ IsFinite(hum_args.T_air) /\ IsFinite(hum_args.T_dew)
    /\ IsFinite(hum_args.p_air)

\* C16: for every temperature T and pressure p, q(T, T, p) returns a pair
\* whose actual specific humidity equals its saturated specific humidity.
C16_SaturatedAtDewpoint ==
    (QDone /\ FEq(hum_args.T_air, hum_args.T_dew))
    => FEq(hum_ret[1], hum_ret[2])

\* C16 happens: q(293.15, 293.15, 1013.25) returns two equal, positive
\* humidities.
C16_Witness ==
    /\ QDone
    /\ hum_args.T_air = F(29315, -2) /\ hum_args.T_dew = F(29315, -2)
    /\ hum_args.p_air = F(101325, -2)
    /\ FLt(Zero, hum_ret[1])
    /\ FEq(hum_ret[1], hum_ret[2])

\* C17 as stated: for every non-missing input on which q returns,
\* 0 <= q_a <= q_s, a dewpoint above the air temperature included.  Stated
\* for positive temperatures and pressures.
C17_HumidityBounded ==
    (/\ QDone
     /\ FLt(Zero, hum_args.T_air) /\ FLt(Zero, hum_args.T_dew)
     /\ FLt(Zero, hum_args.p_air))
    => (FLe(Zero, hum_ret[1]) /\ FLe(hum_ret[1], hum_ret[2]))

\* The temperature (K) at which T - 273.15 + 243.5, the divisor in the
\* exponent of the vapour pressure, is zero.
T_pole == FSub(F(27315, -2), F(2435, -1))

\* C17 amended: for every non-missing input with 29.65 K < T_dew <= T_air
\* on which q returns a positive saturated humidity, 0 <= q_a <= q_s; with
\* 29.65 K < T_air < T_dew and a positive humidity q_a, q_a exceeds q_s.
C17_BoundedBelowSaturation ==
    /\ (QDone /\ FLt(T_pole, hum_args.T_dew)
              /\ FLe(hum_args.T_dew, hum_args.T_air)
              /\ FLt(Zero, hum_ret[2]))
       => (FLe(Zero, hum_ret[1]) /\ FLe(hum_ret[1], hum_ret[2]))
    /\ (QDone /\ FLt(T_pole, hum_args.T_air)
              /\ FLt(hum_args.T_air, hum_args.T_dew)
              /\ FLt(Zero, hum_ret[1]) /\ IsFinite(hum_ret[1]))
       => FLt(hum_ret[2], hum_ret[1])

\* C17 happens: a dewpoint below the air temperature at 1013.25 hPa, and
\* an actual humidity strictly between 0 and the saturated one.
C17_Witness ==
    /\ QDone
    /\ hum_args.T_dew = F(28315, -2) /\ hum_args.T_air = F(29315, -2)
    /\ hum_args.p_air = F(101325, -2)
    /\ FLt(Zero, hum_ret[1]) /\ FLt(hum_ret[1], hum_ret[2])

\* C18: q and rho end with the error InvalidPhysicalInput when the pressure
\* is <= 0 or a temperature is <= 0 K; they return no number.  Stated for
\* arguments that are numbers.
C18_NonPhysicalInputRaises ==
    (/\ hum_pc = "done"
     /\ IsFinite(hum_args.p_air) /\ IsFinite(hum_args.T_air)
     /\ (hum_args.fn = "q" => IsFinite(hum_args.T_dew))
     /\ \/ FLe(hum_args.p_air, Zero)
        \/ FLe(hum_args.T_air, Zero)
        \/ (hum_args.fn = "q" /\ FLe(hum_args.T_dew, Zero)))
    => hum_raised = "InvalidPhysicalInput"

---------------------------------------------------------------------------
(* Properties of distance                                                  *)

\* The calls of distance so far.
DistCalls == 1..Len(dist_ret)

\* The two coordinates of call n are the same (latitude, longitude) pair.
SamePair(n) ==
    /\ FEq(dist_args[n][1], dist_args[n][3])
    /\ FEq(dist_args[n][2], dist_args[n][4])

\* The two coordinates of call n are the same point of the sphere: the same
\* latitude, longitudes equal or a full turn apart.
SamePoint(n) ==
    /\ FEq(dist_args[n][1], dist_args[n][3])
    /\ \E turn \in { Deg(-360), Deg(0), Deg(360) } :
          FEq(FSub(dist_args[n][4], dist_args[n][2]), turn)

C20_Symmetric ==
    Len(dist_ret) = 2 => FEq(dist_ret[1], dist_ret[2])

\* C20 happens: distance(0, -180, 50, 0) and distance(50, 0, 0, -180) have
\* both returned the same positive value.
C20_Witness ==
    /\ Len(dist_ret) = 2
    /\ dist_args[1] = <<Deg(0), Deg(-180), Deg(50), Deg(0)>>
    /\ dist_args[2] = <<Deg(50), Deg(0), Deg(0), Deg(-180)>>
    /\ FLt(Zero, dist_ret[1])
    /\ FEq(dist_ret[1], dist_ret[2])

\* C21: for every coordinate A, distance(A, A) is exactly zero.
C21_SelfDistanceZero ==
    \A n \in DistCalls : SamePair(n) => dist_ret[n] = Zero

\* C21 happens: distance(40, -80, 40, -80) has returned zero.
C21_Witness ==
    /\ dist_pc = "done"
    /\ Len(dist_ret) = 1
    /\ dist_args[1] = <<Deg(40), Deg(-80), Deg(40), Deg(-80)>>
    /\ dist_ret[1] = Zero


----------------------------------------------------------------------------
(* Properties of the calibration constants: lhf (qe.py)                     *)

\* C23: a call of lhf that supplies a value for one of the calibration
\* constants (r_st_min, r_st_max, c_sd, a, b, c) is accepted and returns a
\* result; it raises nothing.
C23_OverrideAccepted ==
    (lhf_kw # <<>> /\ MissingIn(lhf_args) = {}) => lhf_raised = ""


----------------------------------------------------------------------------
(* Properties of calls running side by side                                 *)

\* What each call returns when it runs alone.
Alone ==
    [c \in ParCalls |->
        CASE c.fn = "lhf" ->
               lhf(c.args.T_lst, c.args.T_air, c.args.T_dew, c.args.p_air,
                   c.args.r_av, c.args.sm, c.args.S_d, c.args.LAI).qe
          [] c.fn = "q" -> q(c.args.T_air, c.args.T_dew, c.args.p_air)
          [] c.fn = "rho" -> rho(c.args.T_air, c.args.p_air)
          [] c.fn = "distance" ->
               distance(c.args.lat_loc, c.args.lon_loc, c.args.lat_asos,
                        c.args.lon_asos)]

\* C22: in any interleaving of concurrent calls of lhf, q, rho and
\* distance, every call that has returned has returned what it returns when
\* it runs alone, and the module-level constants have the values they were
\* bound to at import.
C22_CallsDoNotInterfere ==
    /\ globals = ModuleConstants
    /\ \A t \in DOMAIN threads :
          threads[t].ret # <<>> => threads[t].ret[1] = Alone[threads[t].call]

\* C22 happens: lhf has returned its value while a call of q, which binds
\* the same names T_air and T_dew, is in the middle of its body.
C22_Witness ==
    /\ Len(threads) = 2
    /\ threads[1].call.fn = "lhf" /\ threads[1].ret # <<>>
    /\ threads[1].ret[1] = Alone[threads[1].call]
    /\ threads[2].call.fn = "q" /\ threads[2].stack # <<>>
    /\ Top(threads, 2).pc = 4


----------------------------------------------------------------------------
(* Properties of the cached products                                        *)

\* A product file of folder d spans the requested range.
Covered(d, req) == \E n \in DOMAIN d : n.ext = "nc" /\ covers(n, req)

\* C24: when no .nc file of the smap folder covers the requested range,
\* smap.main writes the dataset it read to the file named from the request
\* and to no other, and every file that was in the folder is as it was.
C24_WritesBuiltNameOnly ==
    (/\ cache_pc = "done" /\ cache_args.f = "smap"
     /\ ~Covered(cache_args.before, cache_args.req))
    => LET name == built("smap", cache_args.req)
       IN  /\ cache_frame.written = <<name>>
           /\ DOMAIN cache_dir.smap = DOMAIN cache_args.before \cup {name}
           /\ cache_dir.smap[name].written
           /\ \A n \in DOMAIN cache_args.before :
                 cache_dir.smap[n] = cache_args.before[n]

\* C25: when some .nc file of the LAI folder covers the requested range,
\* wherever it stands in the listing, lai.main finds it: file_exists is
\* true, a covering file is opened and nothing is pulled or written.
C25_FindsAnyCoveringFile ==
    (/\ cache_pc = "done" /\ cache_args.f = "lai"
     /\ Covered(cache_args.before, cache_args.req))
    => /\ cache_frame.file_exists
       /\ cache_frame.written = <<>>
       /\ cache_frame.opened # <<>>
       /\ covers(cache_frame.opened[1], cache_args.req)
       /\ cache_dir.lai = cache_args.before


----------------------------------------------------------------------------
(* Properties of data_download and sd.main                                  *)

\* C26: every call of data_download with a bucket eventually returns a
\* (goes_product, goes_varnames) pair.
C26_BucketCallReturnsPair ==
    (dl_pc = "while" /\ dl_args.bucket)
    ~> (dl_pc = "returned" /\ dl_ret[1].kind = "pair")

\* No .nc file of the listing ends in the hour asked for.
NoFileAtDate == matching(nc_files(dl_args.listing), dl_args.date) = <<>>

\* The file data_download tries to open cannot be opened.
FirstMatchBroken ==
    LET temp == matching(nc_files(dl_args.listing), dl_args.date)
    IN  temp # <<>> /\ ~temp[1].ok

C28_LooksAnHourBehind ==
    (dl_pc = "returned" /\ NoFileAtDate)
    => (dl_args.date - 1) \in dl_frame.searched


----------------------------------------------------------------------------
(* Properties of data_read (asos_data_reader.py)                            *)

\* C29: consecutive rows of the frame data_read returns are exactly one
\* hour apart, also when records of the file lack a parsable temperature or
\* wind field.
C29_RowsOneHourApart ==
    asos_pc = "done"
    => \A k \in 1..(Len(asos_frame.df) - 1) :
          asos_frame.df[k + 1].date - asos_frame.df[k].date = minutes(1)


----------------------------------------------------------------------------
(* Properties of the quality masking: s_d (sd.py), lines 158-168            *)

\* The pixels of the window s_d returns, as <<row, column>> of the window.
WindowPixels ==
    { <<r, c>> : r \in DOMAIN sd_frame.data, c \in 1..Len(sd_frame.cols) }

\* Pixel p of the window has a non-zero data quality flag.
Flagged(p) == sd_frame.dqf[p[1]][p[2]] # 0

\* C30: in the window s_d returns, every pixel whose data quality flag is
\* not zero is missing (NaN) and every other pixel has the value of the
\* product, unless every pixel of the window is flagged; only then is the
\* window replaced by zeros.
C30_FlaggedPixelsMissing ==
    sd_pc = "done"
    => IF \A p \in WindowPixels : Flagged(p)
         THEN \A p \in WindowPixels : sd_frame.data[p[1]][p[2]] = Zero
         ELSE \A p \in WindowPixels :
                 /\ Flagged(p) => IsNaN(sd_frame.data[p[1]][p[2]])
                 /\ ~Flagged(p)
                       => sd_frame.data[p[1]][p[2]]
                            = product_data(sd_frame.rows[p[1]],
                                           sd_frame.cols[p[2]])

\* C30 happens: s_d has returned a window with a flagged pixel, which is
\* missing, next to a clear pixel, which has its value.
C30_Witness ==
    /\ sd_pc = "done"
    /\ \E p, o \in WindowPixels :
          /\ Flagged(p) /\ IsNaN(sd_frame.data[p[1]][p[2]])
          /\ ~Flagged(o) /\ ~IsNaN(sd_frame.data[o[1]][o[2]])

=============================================================================
